---- MODULE Spec2Model ----
(***************************************************************************)
(* A model of the field mapping engine of                                  *)
(* src/src/algorithms/field-mapping-core.py (class IntelligentFieldMapper). *)
(*                                                                         *)
(* Numbers.  The program computes with floats; the model computes with     *)
(* exact fixed-point integers:                                             *)
(*   - a similarity matrix entry is an integer number of 1/ScoreOne,       *)
(*   - a fusion weight is an integer number of tenths,                     *)
(*   - a threshold is an integer number of hundredths,                     *)
(*   - a confidence is an integer number of 1/ConfOne, where ConfOne is    *)
(*     ScoreOne * WeightLCM; the division by the total weight is exact     *)
(*     because every total weight the model uses divides WeightLCM.        *)
(* Field names are strings; TLC gives Len, SubSeq and \o on strings.       *)
(*                                                                         *)
(* The module also models two scripts of src/.taskmaster/scripts, each     *)
(* command of which loads a JSON state file, changes the state and saves   *)
(* it: execution-state.py and track-time.py.                               *)
(***************************************************************************)
EXTENDS Integers, Sequences, FiniteSets, TLC

VARIABLES
    pc,           \* "new" | "ready" | "mapped" | "resolved" | "scored" | "bonus"
                  \* | "validated" | "candidates" | "inferred" | "ruled"
    config,       \* self.config: a function from option names to values
    bert_model,   \* self.bert_model: "loaded" or "None"
    tfidf_vectorizer, \* self.tfidf_vectorizer: "ready" or "None"
    vocabulary_,  \* self.tfidf_vectorizer.vocabulary_: the terms the last
                  \* fit_transform learned; {} before the first fit
    configArg,    \* the argument __init__ was called with ("None" or a dict)
    arg_document_fields, \* argument of the last map_fields call
    arg_form_fields, \* argument of the last map_fields call
    embedResp,    \* what the embedding collaborator did in the last call
    vocabularyBefore, \* vocabulary_ when the last map_fields call began
    matrices,     \* similarity_matrices of the last map_fields call
    confidences,  \* every value _calculate_confidence_score returned in it
    outcome,      \* "none" | "ok" | "KeyError" | "ValueError"
    resolveInput, \* the list handed to _resolve_mapping_conflicts
    mappings,     \* the list returned by the last call
    arg_mapping,  \* the mapping handed to validate_data_types
    arg_value,    \* the value handed to validate_data_types
    result,       \* what a helper that was called directly returned
    execution_file, \* .taskmaster/state/execution-state.json: <<>> while the
                  \* file does not exist, else <<state>>
    tracking_file, \* .taskmaster/state/time-tracking.json, likewise
    command,      \* the last command of a script that ran
    fileBefore,   \* the state file of that script when the command began
    exit_code,    \* the exit code of that command
    key_history   \* for each key of track-time.py: "none", "started" once
                  \* start_tracking was called for it, "completed" once
                  \* complete_tracking was called for it after that

mapperVars == <<pc, config, bert_model, tfidf_vectorizer, vocabulary_, configArg,
          arg_document_fields, arg_form_fields, embedResp, vocabularyBefore,
          matrices, confidences, outcome, resolveInput, mappings, arg_mapping,
          arg_value, result>>

\* the state of the scripts and the record of their last command
scriptVars == <<execution_file, tracking_file, command, fileBefore, exit_code,
                key_history>>

vars == <<mapperVars, scriptVars>>

\* the record of a direct call of validate_data_types or of a scoring helper
helperVars == <<arg_mapping, arg_value, result>>

-----------------------------------------------------------------------------
(* Bounds of the model *)

\* longest document/form field list handed to map_fields
MaxFields == 2
\* longest mapping list handed directly to _resolve_mapping_conflicts
MaxMappings == 3
\* longest document/form field list of a call that is compared with other
\* calls (on the same mapper, or under another threshold)
MaxShortFields == 1
\* longest completed_tasks or completed_subtasks list a command appends to
MaxCompleted == 3

-----------------------------------------------------------------------------
(* Fixed-point units *)

ScoreOne == 100 * 100
WeightLCM == 8 * 9 * 5 * 7
ConfOne == ScoreOne * WeightLCM

\* a threshold given in hundredths, as a confidence
ThresholdAsConf(t) == t * (ConfOne \div 100)

Max(a, b) == IF a >= b THEN a ELSE b
Min(a, b) == IF a <= b THEN a ELSE b

SeqsUpTo(S, n) == UNION {[1..k -> S] : k \in 0..n}

Range(f) == {f[x] : x \in DOMAIN f}

\* The function f restricted to S, as a table of its values: TLC computes
\* each value once, when it builds the table.
RECURSIVE TableOn(_, _)
TableOn(f, S) ==
    IF S = {} THEN <<>>
    ELSE LET x == CHOOSE y \in S : TRUE
         IN  (x :> f[x]) @@ TableOn(f, S \ {x})

Table(f) == TableOn(f, DOMAIN f)

-----------------------------------------------------------------------------
(* Enumerations *)

FieldType == {"TEXT", "EMAIL", "PHONE", "DATE", "NUMBER", "CURRENCY",
              "ADDRESS", "NAME", "BOOLEAN", "SIGNATURE", "UNKNOWN"}

MatchingStrategy == {"EXACT", "FUZZY", "SEMANTIC", "RULE_BASED",
                     "ML_CLASSIFICATION", "HYBRID"}

\* FieldMapping(source_field, target_field, confidence_score, field_type,
\* matching_strategy, metadata)
FieldMapping(s, t, c, ft, st, md) ==
    [source_field |-> s, target_field |-> t, confidence_score |-> c,
     field_type |-> ft, matching_strategy |-> st, metadata |-> md]

\* DocumentField(name, value, field_type) and FormField(name, field_type):
\* the engine reads only the name and the declared type
Field(n, ft) == [name |-> n, field_type |-> ft]

\* the fields the model draws the arguments of map_fields from
DocumentFieldPool ==
    {Field("firstName", "NAME"), Field("first_name", "NAME"),
     Field("xyz123", "TEXT"), Field("a", "TEXT")}

FormFieldPool ==
    {Field("firstName", "NAME"), Field("firstName", "TEXT"),
     Field("a", "TEXT"), Field("FIRSTNAME", "NAME")}

\* the field names that occur in them
FieldNames == {f.name : f \in DocumentFieldPool \cup FormFieldPool}

\* Evaluates `x` to a value and then F of that value.  It is F(x); TLC
\* computes x before it goes on, which keeps its evaluation stack shallow.
Then(x, F(_)) == CHOOSE r \in {F(v) : v \in {x}} : TRUE

-----------------------------------------------------------------------------
(* Strings *)

Ch(s, i) == SubSeq(s, i, i)

UpperCase == "ABCDEFGHIJKLMNOPQRSTUVWXYZ"
LowerCase == "abcdefghijklmnopqrstuvwxyz"

\* str.lower() on one character
LowerChar(c) ==
    IF \E k \in 1..Len(UpperCase) : Ch(UpperCase, k) = c
    THEN Ch(LowerCase, CHOOSE k \in 1..Len(UpperCase) : Ch(UpperCase, k) = c)
    ELSE c

RECURSIVE LowerFrom(_, _)
LowerFrom(s, i) ==
    IF i > Len(s) THEN "" ELSE LowerChar(Ch(s, i)) \o LowerFrom(s, i + 1)

\* str.lower()
Lower(s) == LowerFrom(s, 1)

\* needle occurs in hay at position p
OccursAt(needle, hay, p) ==
    /\ p >= 1
    /\ p + Len(needle) - 1 <= Len(hay)
    /\ SubSeq(hay, p, p + Len(needle) - 1) = needle

\* Python's `needle in hay`
Contains(hay, needle) == \E p \in 1..(Len(hay) + 1) : OccursAt(needle, hay, p)

IsSpace(c) == c = " "

\* str.split(): the maximal runs of non-whitespace characters, in order
RECURSIVE SplitFrom(_, _, _)
SplitFrom(s, i, cur) ==
    IF i > Len(s)
    THEN IF cur = "" THEN <<>> ELSE <<cur>>
    ELSE IF IsSpace(Ch(s, i))
         THEN (IF cur = "" THEN <<>> ELSE <<cur>>) \o SplitFrom(s, i + 1, "")
         ELSE SplitFrom(s, i + 1, cur \o Ch(s, i))

Split(s) == SplitFrom(s, 1, "")

\* code point order of the characters that occur in lower-cased field names
AsciiOrder == " -.0123456789_abcdefghijklmnopqrstuvwxyz"

CharRank(c) == CHOOSE k \in 1..Len(AsciiOrder) : Ch(AsciiOrder, k) = c

\* Python's a < b on strings
RECURSIVE StrLessFrom(_, _, _)
StrLessFrom(a, b, i) ==
    IF i > Len(b) THEN FALSE
    ELSE IF i > Len(a) THEN TRUE
    ELSE IF Ch(a, i) = Ch(b, i) THEN StrLessFrom(a, b, i + 1)
    ELSE CharRank(Ch(a, i)) < CharRank(Ch(b, i))

StrLess(a, b) == StrLessFrom(a, b, 1)

\* sorted(tokens)
RECURSIVE InsertSorted(_, _)
InsertSorted(tok, sorted) ==
    IF sorted = <<>> THEN <<tok>>
    ELSE IF StrLess(Head(sorted), tok)
         THEN <<Head(sorted)>> \o InsertSorted(tok, Tail(sorted))
         ELSE <<tok>> \o sorted

RECURSIVE SortTokens(_)
SortTokens(toks) ==
    IF toks = <<>> THEN <<>> ELSE InsertSorted(Head(toks), SortTokens(Tail(toks)))

\* " ".join(tokens)
RECURSIVE JoinTokens(_)
JoinTokens(toks) ==
    IF toks = <<>> THEN ""
    ELSE IF Len(toks) = 1 THEN Head(toks)
    ELSE Head(toks) \o " " \o JoinTokens(Tail(toks))

-----------------------------------------------------------------------------
(* The lexical provider: rapidfuzz's fuzz.ratio, fuzz.partial_ratio and    *)
(* fuzz.token_sort_ratio.  Each metric is a percentage; the model keeps it *)
(* in tenths of a percent, rounded down.                                   *)

\* one row of the longest-common-subsequence table
RECURSIVE LcsCells(_, _, _, _, _)
LcsCells(c, b, prev, cur, j) ==
    IF j > Len(b) THEN cur
    ELSE Then(Append(cur, IF c = Ch(b, j) THEN prev[j] + 1
                          ELSE Max(prev[j + 1], cur[j])),
              LAMBDA next : LcsCells(c, b, prev, next, j + 1))

RECURSIVE LcsRows(_, _, _, _)
LcsRows(a, b, prev, i) ==
    IF i > Len(a) THEN prev[Len(b) + 1]
    ELSE Then(LcsCells(Ch(a, i), b, prev, <<0>>, 1),
              LAMBDA row : LcsRows(a, b, row, i + 1))

\* length of the longest common subsequence of a and b
LCS(a, b) == LcsRows(a, b, [j \in 1..(Len(b) + 1) |-> 0], 1)

\* fuzz.ratio: the normalised Indel similarity, 2 * LCS / (len(a) + len(b))
FuzzRatio(a, b) ==
    IF Len(a) + Len(b) = 0 THEN 1000
    ELSE (2000 * LCS(a, b)) \div (Len(a) + Len(b))

\* the windows of `long` that fuzz.partial_ratio aligns a needle of length n
\* with: every substring of length n, and the shorter prefixes and suffixes
PartialWindows(long, n) ==
    {<<i, j>> \in (1..Len(long)) \X (1..Len(long)) :
        /\ i <= j
        /\ \/ j - i + 1 = n
           \/ (i = 1 /\ j - i + 1 < n)
           \/ (j = Len(long) /\ j - i + 1 < n)}

SetMax(S) == CHOOSE m \in S : \A x \in S : x <= m

\* fuzz.partial_ratio
FuzzPartialRatio(a, b) ==
    LET short == IF Len(a) <= Len(b) THEN a ELSE b
        long == IF Len(a) <= Len(b) THEN b ELSE a
    IN  IF Len(short) = 0
        THEN (IF Len(long) = 0 THEN 1000 ELSE 0)
        ELSE SetMax({FuzzRatio(short, SubSeq(long, w[1], w[2])) :
                        w \in PartialWindows(long, Len(short))})

\* fuzz.token_sort_ratio
FuzzTokenSortRatio(a, b) ==
    FuzzRatio(JoinTokens(SortTokens(Split(a))), JoinTokens(SortTokens(Split(b))))

\* the fuzzy metrics on the names as they are written
FuzzyScoreCaseSensitive(doc_field, form_field) ==
    FuzzRatio(doc_field, form_field) * 4 + FuzzPartialRatio(doc_field, form_field) * 3
    + FuzzTokenSortRatio(doc_field, form_field) * 3

\* one entry of _compute_fuzzy_matrix:
\* ratio * 0.4 + partial_ratio * 0.3 + token_sort_ratio * 0.3
FuzzyScore(doc_field, form_field) ==
    LET d == Lower(doc_field)
        f == Lower(form_field)
    IN  FuzzRatio(d, f) * 4 + FuzzPartialRatio(d, f) * 3
        + FuzzTokenSortRatio(d, f) * 3

\* FuzzyScore for every pair of modelled names; TLC evaluates the table once
FuzzyScoreTable ==
    Table([p \in FieldNames \X FieldNames |-> FuzzyScore(p[1], p[2])])

-----------------------------------------------------------------------------
(* The rule-based provider *)

\* A pattern of the table is `(h1|h2|..)` or `(h1|h2|..).*t`: a set of heads
\* and a tail, "" when there is none.
Pat(heads, tail) == [heads |-> heads, tail |-> tail]

\* re.search(pattern, s)
ReSearch(pattern, s) ==
    \E h \in pattern.heads : \E p \in 1..(Len(s) + 1) :
        /\ OccursAt(h, s, p)
        /\ \E q \in (p + Len(h))..(Len(s) + 1) : OccursAt(pattern.tail, s, q)

\* the `patterns` list of _apply_mapping_rules: <<doc_pattern, form_pattern>>
MappingPatterns == <<
    <<Pat({"first", "given"}, "name"), Pat({"first", "given"}, "name")>>,
    <<Pat({"last", "family", "sur"}, "name"),
      Pat({"last", "family", "sur"}, "name")>>,
    <<Pat({"full"}, "name"), Pat({"full", "complete"}, "name")>>,
    <<Pat({"email"}, "address"), Pat({"email"}, "")>>,
    <<Pat({"phone"}, "number"), Pat({"phone"}, "")>>,
    <<Pat({"mobile"}, "number"), Pat({"mobile", "cell"}, "")>>,
    <<Pat({"street"}, "address"), Pat({"street", "address"}, "")>>,
    <<Pat({"city"}, ""), Pat({"city"}, "")>>,
    <<Pat({"state"}, ""), Pat({"state"}, "")>>,
    <<Pat({"zip"}, "code"), Pat({"zip", "postal"}, "")>>,
    <<Pat({"birth"}, "date"), Pat({"birth", "dob"}, "")>>,
    <<Pat({"date"}, "birth"), Pat({"birth", "dob"}, "")>>,
    <<Pat({"salary"}, ""), Pat({"salary", "income"}, "")>>,
    <<Pat({"amount"}, ""), Pat({"amount"}, "")>> >>

\* the rules with a word overlap that is not scaled down: the Jaccard index
\* itself takes part in the maximum
UnscaledOverlapRules(doc_field, form_field) ==
    LET doc_lower == Lower(doc_field)
        form_lower == Lower(form_field)
        patScore ==
            IF \E k \in 1..Len(MappingPatterns) :
                  /\ ReSearch(MappingPatterns[k][1], doc_lower)
                  /\ ReSearch(MappingPatterns[k][2], form_lower)
            THEN (9 * ScoreOne) \div 10 ELSE 0
        subScore ==
            IF Contains(form_lower, doc_lower) \/ Contains(doc_lower, form_lower)
            THEN Max(patScore, (7 * ScoreOne) \div 10) ELSE patScore
        doc_words == Range(Split(doc_lower))
        form_words == Range(Split(form_lower))
        overlap == Cardinality(doc_words \cap form_words)
        total_words == Cardinality(doc_words \cup form_words)
    IN  IF doc_lower = form_lower THEN ScoreOne
        ELSE IF total_words > 0
             THEN Max(subScore, (overlap * ScoreOne) \div total_words)
             ELSE subScore

\* _apply_mapping_rules
ApplyMappingRules(doc_field, form_field) ==
    LET doc_lower == Lower(doc_field)
        form_lower == Lower(form_field)
        patScore ==
            IF \E k \in 1..Len(MappingPatterns) :
                  /\ ReSearch(MappingPatterns[k][1], doc_lower)
                  /\ ReSearch(MappingPatterns[k][2], form_lower)
            THEN (9 * ScoreOne) \div 10 ELSE 0
        subScore ==
            IF Contains(form_lower, doc_lower) \/ Contains(doc_lower, form_lower)
            THEN Max(patScore, (7 * ScoreOne) \div 10) ELSE patScore
        doc_words == Range(Split(doc_lower))
        form_words == Range(Split(form_lower))
        overlap == Cardinality(doc_words \cap form_words)
        total_words == Cardinality(doc_words \cup form_words)
    IN  IF doc_lower = form_lower THEN ScoreOne
        ELSE IF total_words > 0
             THEN Max(subScore, (overlap * 8 * (ScoreOne \div 10)) \div total_words)
             ELSE subScore

\* ApplyMappingRules for every pair of modelled names
MappingRulesTable ==
    Table([p \in FieldNames \X FieldNames |-> ApplyMappingRules(p[1], p[2])])

-----------------------------------------------------------------------------
(* Configuration: a Python dict, modelled as a function whose domain is    *)
(* the set of keys that are present.                                       *)

\* _get_default_config
GetDefaultConfig ==
    [similarity_threshold |-> 70,
     confidence_threshold |-> 60,
     enable_semantic_matching |-> TRUE,
     enable_fuzzy_matching |-> TRUE,
     enable_rule_based |-> TRUE,
     fuzzy_ratio_weight |-> 3,
     semantic_weight |-> 4,
     rule_weight |-> 3,
     bert_model_name |-> "distilbert-base-uncased",
     spacy_model |-> "en_core_web_sm",
     max_suggestions |-> 5]

EmptyDict == [k \in {} |-> 0]

\* dict.get(key, default)
Get(cfg, key, default) == IF key \in DOMAIN cfg THEN cfg[key] ELSE default

\* `if self.config.get(key):` for a flag; a missing key gives None, which is falsy
Enabled(cfg, key) == key \in DOMAIN cfg /\ cfg[key] = TRUE

\* `config or self._get_default_config()`: None and the empty dict are falsy
InitialConfig(arg) ==
    IF arg.isNone \/ DOMAIN arg.dict = {} THEN GetDefaultConfig ELSE arg.dict

\* What loading the NLP components can do (the collaborators of
\* _initialize_components): everything loads, AutoModel.from_pretrained
\* raises, or spacy.load raises.
LoadResponses == {"ok", "model_fails", "spacy_fails"}

\* _initialize_components: the state of the mapper after it
InitializeComponents(cfg, load) ==
    IF ~Enabled(cfg, "enable_semantic_matching")
    THEN [config |-> cfg, bert_model |-> "None", tfidf_vectorizer |-> "None"]
    ELSE IF "bert_model_name" \notin DOMAIN cfg \/ load = "model_fails"
    THEN [config |-> [cfg EXCEPT !["enable_semantic_matching"] = FALSE],
          bert_model |-> "None", tfidf_vectorizer |-> "None"]
    ELSE IF "spacy_model" \notin DOMAIN cfg \/ load = "spacy_fails"
    THEN [config |-> [cfg EXCEPT !["enable_semantic_matching"] = FALSE],
          bert_model |-> "loaded", tfidf_vectorizer |-> "None"]
    ELSE [config |-> cfg, bert_model |-> "loaded", tfidf_vectorizer |-> "ready"]

-----------------------------------------------------------------------------
(* The semantic provider and its collaborators *)

\* What the embedding collaborator does in one map_fields call: it raises,
\* or it answers with one of two embedding tables.
EmbedResponses == {"raise", "by_length", "constant"}

\* The vector the collaborator returns for a text.  Vectors are unit vectors
\* on the axes of the plane, so that their cosine is their dot product.
Embed(resp, text) ==
    IF resp = "constant" THEN <<1, 0>>
    ELSE CASE Len(text) % 3 = 0 -> <<1, 0>>
           [] Len(text) % 3 = 1 -> <<-1, 0>>
           [] OTHER -> <<0, 1>>

\* sklearn's cosine_similarity on two unit vectors
CosineSimilarity(u, v) == (u[1] * v[1] + u[2] * v[2]) * ScoreOne

\* sklearn's check on the arguments of cosine_similarity: an array without
\* rows is rejected with a ValueError
CosineRaises(rowsX, rowsY) == rowsX = 0 \/ rowsY = 0

IsWordChar(c) == c \notin {" ", "-", "."}

\* re.findall(r"\b\w\w+\b", s): the maximal runs of two or more word characters
RECURSIVE WordRunsFrom(_, _, _)
WordRunsFrom(s, i, cur) ==
    LET done == IF Len(cur) >= 2 THEN <<cur>> ELSE <<>>
    IN  IF i > Len(s) THEN done
        ELSE IF IsWordChar(Ch(s, i)) THEN WordRunsFrom(s, i + 1, cur \o Ch(s, i))
        ELSE done \o WordRunsFrom(s, i + 1, "")

\* the members of sklearn's English stop word list that a modelled field
\* name can consist of
EnglishStopWords == {"a", "an", "and", "of", "the"}

\* the tokens TfidfVectorizer(stop_words='english') keeps of a text
TfidfTokens(text) ==
    SelectSeq(WordRunsFrom(Lower(text), 1, ""), LAMBDA w : w \notin EnglishStopWords)

\* its terms under ngram_range=(1, 2)
TfidfTerms(text) ==
    LET toks == TfidfTokens(text)
    IN  Range(toks) \cup {toks[k] \o " " \o toks[k + 1] : k \in 1..(Len(toks) - 1)}

\* TfidfTerms for every modelled name
TfidfTermsTable == Table([n \in FieldNames |-> TfidfTerms(n)])

\* fit_transform raises ValueError("empty vocabulary") when no text has a term
TfidfVocabularyEmpty(all_fields) ==
    \A k \in 1..Len(all_fields) : TfidfTermsTable[all_fields[k]] = {}

\* a vectorizer that keeps the vocabulary of its first fit
TfidfFitOnce(vocabulary, all_fields) ==
    IF vocabulary # {} THEN vocabulary
    ELSE UNION {TfidfTermsTable[all_fields[k]] : k \in 1..Len(all_fields)}

\* the vocabulary_ fit_transform leaves: it learns the terms of the texts it is
\* given and forgets those of an earlier fit
TfidfFit(vocabulary, all_fields) ==
    UNION {TfidfTermsTable[all_fields[k]] : k \in 1..Len(all_fields)}

\* The cosine of the TF-IDF vectors of two texts over a fitted vocabulary: 0
\* without a common term, 1 for the same terms; in between the model takes the
\* share of common terms.
TfidfCosine(vocabulary, a, b) ==
    LET ta == TfidfTermsTable[a] \cap vocabulary
        tb == TfidfTermsTable[b] \cap vocabulary
    IN  IF ta \cap tb = {} THEN 0
        ELSE (ScoreOne * Cardinality(ta \cap tb)) \div Cardinality(ta \cup tb)

\* _compute_tfidf_similarity on a vectorizer whose vocabulary_ is `vocabulary`:
\* no exception is caught in it.  fit_transform raises before it stores a
\* vocabulary; cosine_similarity raises after the fit.
ComputeTfidfSimilarity(vocabulary, doc_fields, form_fields) ==
    IF TfidfVocabularyEmpty(doc_fields \o form_fields)
    THEN [raised |-> TRUE, matrix |-> <<>>, vocabulary |-> vocabulary]
    ELSE LET fitted == TfidfFit(vocabulary, doc_fields \o form_fields)
         IN  IF CosineRaises(Len(doc_fields), Len(form_fields))
             THEN [raised |-> TRUE, matrix |-> <<>>, vocabulary |-> fitted]
             ELSE [raised |-> FALSE,
                   matrix |-> [i \in 1..Len(doc_fields) |->
                                [j \in 1..Len(form_fields) |->
                                    TfidfCosine(fitted, doc_fields[i],
                                                form_fields[j])]],
                   vocabulary |-> fitted]

\* the try block of _compute_semantic_matrix raises: _get_bert_embeddings
\* calls the collaborator once per text, and cosine_similarity rejects an
\* empty embedding array
BertPathRaises(doc_fields, form_fields, resp) ==
    \/ (resp = "raise" /\ Len(doc_fields) + Len(form_fields) > 0)
    \/ CosineRaises(Len(doc_fields), Len(form_fields))

\* _compute_semantic_matrix
ComputeSemanticMatrix(vocabulary, doc_fields, form_fields, resp) ==
    IF BertPathRaises(doc_fields, form_fields, resp)
    THEN ComputeTfidfSimilarity(vocabulary, doc_fields, form_fields)
    ELSE [raised |-> FALSE,
          matrix |-> [i \in 1..Len(doc_fields) |->
                        [j \in 1..Len(form_fields) |->
                            CosineSimilarity(Embed(resp, doc_fields[i]),
                                             Embed(resp, form_fields[j]))]],
          vocabulary |-> vocabulary]

\* _compute_fuzzy_matrix
ComputeFuzzyMatrix(doc_fields, form_fields) ==
    [i \in 1..Len(doc_fields) |->
        [j \in 1..Len(form_fields) |->
            FuzzyScoreTable[<<doc_fields[i], form_fields[j]>>]]]

\* _compute_rule_based_matrix
ComputeRuleBasedMatrix(doc_fields, form_fields) ==
    [i \in 1..Len(doc_fields) |->
        [j \in 1..Len(form_fields) |->
            MappingRulesTable[<<doc_fields[i], form_fields[j]>>]]]

\* the keys of similarity_matrices in the order they are inserted
ProviderOrder == <<"fuzzy", "semantic", "rule_based">>

\* the providers _compute_similarity_matrices computes a matrix for
ActiveProviders(cfg, bert) ==
    {p \in Range(ProviderOrder) :
        \/ (p = "fuzzy" /\ Enabled(cfg, "enable_fuzzy_matching"))
        \/ (p = "semantic" /\ Enabled(cfg, "enable_semantic_matching")
                           /\ bert # "None")
        \/ (p = "rule_based" /\ Enabled(cfg, "enable_rule_based"))}

\* _compute_similarity_matrices: the dict of matrices, or the exception that
\* leaves _compute_semantic_matrix, and the vocabulary_ the call leaves
ComputeSimilarityMatrices(cfg, bert, vocabulary, doc_fields, form_fields, resp) ==
    LET active == ActiveProviders(cfg, bert)
        sem == ComputeSemanticMatrix(vocabulary, doc_fields, form_fields, resp)
    IN  IF "semantic" \in active /\ sem.raised
        THEN [raised |-> TRUE, vocabulary |-> sem.vocabulary,
              matrices |-> EmptyDict]
        ELSE [raised |-> FALSE,
              vocabulary |-> IF "semantic" \in active THEN sem.vocabulary
                             ELSE vocabulary,
              matrices |->
                [p \in active |->
                    CASE p = "fuzzy" -> ComputeFuzzyMatrix(doc_fields, form_fields)
                      [] p = "semantic" -> sem.matrix
                      [] OTHER -> ComputeRuleBasedMatrix(doc_fields, form_fields)]]

-----------------------------------------------------------------------------
(* Score fusion *)

\* the `compatible_types` table of _calculate_type_compatibility_bonus, in
\* hundredths
CompatibleTypes ==
    [pair \in {<<"TEXT", "NAME">>, <<"TEXT", "ADDRESS">>, <<"NUMBER", "CURRENCY">>,
               <<"TEXT", "EMAIL">>, <<"TEXT", "PHONE">>} |->
        IF pair = <<"NUMBER", "CURRENCY">> THEN 15 ELSE 10]

\* a bonus that looks the pair up in one direction only
BonusWithoutReverseLookup(doc_field, form_field) ==
    LET type_pair == <<doc_field.field_type, form_field.field_type>>
    IN  IF doc_field.field_type = form_field.field_type THEN 20
        ELSE IF type_pair \in DOMAIN CompatibleTypes THEN CompatibleTypes[type_pair]
        ELSE 0

\* _calculate_type_compatibility_bonus, in hundredths
CalculateTypeCompatibilityBonus(doc_field, form_field) ==
    LET type_pair == <<doc_field.field_type, form_field.field_type>>
        reverse_pair == <<form_field.field_type, doc_field.field_type>>
    IN  IF doc_field.field_type = form_field.field_type THEN 20
        ELSE IF type_pair \in DOMAIN CompatibleTypes THEN CompatibleTypes[type_pair]
        ELSE IF reverse_pair \in DOMAIN CompatibleTypes
             THEN CompatibleTypes[reverse_pair]
        ELSE 0

\* the configuration key of a provider's weight, and the weight used when the
\* key is missing (in tenths)
WeightKey(p) ==
    CASE p = "fuzzy" -> "fuzzy_ratio_weight"
      [] p = "semantic" -> "semantic_weight"
      [] OTHER -> "rule_weight"

DefaultWeight(p) == IF p = "semantic" THEN 4 ELSE 3

Weight(cfg, p) == Get(cfg, WeightKey(p), DefaultWeight(p))

RECURSIVE SumOver(_, _)
SumOver(S, f) ==
    IF S = {} THEN 0
    ELSE LET x == CHOOSE y \in S : TRUE IN f[x] + SumOver(S \ {x}, f)

\* a fusion that divides by the weights of all three providers, whether they
\* computed a matrix or not
ConfidenceOverAllWeights(cfg, doc_field, form_field, similarity_matrices, doc_index, form_index) ==
    LET active == DOMAIN similarity_matrices
        weighted == [p \in active |->
                        similarity_matrices[p][doc_index][form_index] * Weight(cfg, p)]
        total_weight == SumOver({"fuzzy", "semantic", "rule_based"},
                                [p \in {"fuzzy", "semantic", "rule_based"} |->
                                    Weight(cfg, p)])
        type_bonus == CalculateTypeCompatibilityBonus(doc_field, form_field)
        total_score == SumOver(active, weighted) + type_bonus * (ScoreOne \div 100)
        confidence == IF total_weight > 0
                      THEN (total_score * WeightLCM) \div total_weight
                      ELSE 0
    IN  Min(confidence, ConfOne)

\* _calculate_confidence_score.  total_score is in 1/(10 * ScoreOne),
\* total_weight in tenths, the result in 1/ConfOne.
CalculateConfidenceScore(cfg, doc_field, form_field, similarity_matrices, doc_index, form_index) ==
    LET active == DOMAIN similarity_matrices
        weighted == [p \in active |->
                        similarity_matrices[p][doc_index][form_index] * Weight(cfg, p)]
        total_weight == SumOver(active, [p \in active |-> Weight(cfg, p)])
        type_bonus == CalculateTypeCompatibilityBonus(doc_field, form_field)
        total_score == SumOver(active, weighted) + type_bonus * (ScoreOne \div 100)
        confidence == IF total_weight > 0
                      THEN (total_score * WeightLCM) \div total_weight
                      ELSE 0
    IN  Min(confidence, ConfOne)

StrategyMapping(p) ==
    CASE p = "fuzzy" -> "FUZZY"
      [] p = "semantic" -> "SEMANTIC"
      [] p = "rule_based" -> "RULE_BASED"
      [] OTHER -> "HYBRID"

\* _determine_matching_strategy: max(scores, key=scores.get) is the first key,
\* in insertion order, whose score is the largest
DetermineMatchingStrategy(similarity_matrices, doc_index, form_index) ==
    LET present(k) == ProviderOrder[k] \in DOMAIN similarity_matrices
        score(k) == similarity_matrices[ProviderOrder[k]][doc_index][form_index]
        best == CHOOSE k \in 1..Len(ProviderOrder) :
                    /\ present(k)
                    /\ \A l \in 1..Len(ProviderOrder) :
                           present(l) => score(l) <= score(k)
                    /\ \A l \in 1..(k - 1) : present(l) => score(l) < score(k)
    IN  IF DOMAIN similarity_matrices = {} THEN "EXACT"
        ELSE StrategyMapping(ProviderOrder[best])

\* _get_similarity_breakdown
GetSimilarityBreakdown(similarity_matrices, doc_index, form_index) ==
    [p \in DOMAIN similarity_matrices |->
        similarity_matrices[p][doc_index][form_index]]

AnyTermIn(terms, field_name) == \E t \in terms : Contains(field_name, t)

\* an inference that scans the name of the form field
InferFromTargetName(doc_field, form_field) ==
    LET field_name == Lower(form_field.name)
    IN  IF form_field.field_type # "UNKNOWN" THEN form_field.field_type
        ELSE IF doc_field.field_type # "UNKNOWN" THEN doc_field.field_type
        ELSE IF AnyTermIn({"email", "e-mail"}, field_name) THEN "EMAIL"
        ELSE IF AnyTermIn({"phone", "mobile", "tel"}, field_name) THEN "PHONE"
        ELSE IF AnyTermIn({"date", "birth", "dob"}, field_name) THEN "DATE"
        ELSE IF AnyTermIn({"name", "first", "last"}, field_name) THEN "NAME"
        ELSE IF AnyTermIn({"address", "street", "city"}, field_name) THEN "ADDRESS"
        ELSE IF AnyTermIn({"amount", "price", "salary"}, field_name) THEN "CURRENCY"
        ELSE "TEXT"

\* _infer_field_type
InferFieldType(doc_field, form_field) ==
    LET field_name == Lower(doc_field.name)
    IN  IF form_field.field_type # "UNKNOWN" THEN form_field.field_type
        ELSE IF doc_field.field_type # "UNKNOWN" THEN doc_field.field_type
        ELSE IF AnyTermIn({"email", "e-mail"}, field_name) THEN "EMAIL"
        ELSE IF AnyTermIn({"phone", "mobile", "tel"}, field_name) THEN "PHONE"
        ELSE IF AnyTermIn({"date", "birth", "dob"}, field_name) THEN "DATE"
        ELSE IF AnyTermIn({"name", "first", "last"}, field_name) THEN "NAME"
        ELSE IF AnyTermIn({"address", "street", "city"}, field_name) THEN "ADDRESS"
        ELSE IF AnyTermIn({"amount", "price", "salary"}, field_name) THEN "CURRENCY"
        ELSE "TEXT"

-----------------------------------------------------------------------------
(* Candidate generation *)

\* list.sort(key=confidence_score, reverse=True): stable, so candidates of
\* equal confidence keep their order
RECURSIVE InsertDescending(_, _)
InsertDescending(x, sorted) ==
    IF sorted = <<>> THEN <<x>>
    ELSE IF Head(sorted).confidence_score >= x.confidence_score
         THEN <<Head(sorted)>> \o InsertDescending(x, Tail(sorted))
         ELSE <<x>> \o sorted

RECURSIVE SortDescendingFrom(_, _, _)
SortDescendingFrom(cs, k, acc) ==
    IF k > Len(cs) THEN acc
    ELSE SortDescendingFrom(cs, k + 1, InsertDescending(cs[k], acc))

\* a sort that leaves the candidates in the order of the form fields
KeepFormOrder(cs) == cs

SortByConfidenceDescending(cs) == SortDescendingFrom(cs, 1, <<>>)

\* a slice that keeps the whole list
WholeList(list, n) == list

\* Python's list[:n]
SliceTo(list, n) ==
    IF n >= 0 THEN SubSeq(list, 1, Min(n, Len(list)))
    ELSE SubSeq(list, 1, Max(Len(list) + n, 0))

\* the mapping _find_mapping_candidates builds for one pair
CandidateMapping(cfg, doc_field, form_field, similarity_matrices, doc_index, j) ==
    FieldMapping(doc_field.name, form_field.name,
                 CalculateConfidenceScore(cfg, doc_field, form_field,
                                          similarity_matrices, doc_index, j),
                 InferFieldType(doc_field, form_field),
                 DetermineMatchingStrategy(similarity_matrices, doc_index, j),
                 [doc_field_type |-> doc_field.field_type,
                  form_field_type |-> form_field.field_type,
                  similarity_breakdown |->
                      GetSimilarityBreakdown(similarity_matrices, doc_index, j)])

\* a candidate filter that lets every pair through
IgnoresSimilarityFloor(cfg, confidence) == TRUE

\* the filter of _find_mapping_candidates
ClearsSimilarityFloor(cfg, confidence) ==
    confidence >= ThresholdAsConf(cfg["similarity_threshold"])

\* _find_mapping_candidates, for a configuration that has similarity_threshold
FindMappingCandidates(cfg, doc_field, forms, similarity_matrices, doc_index) ==
    LET all == [j \in 1..Len(forms) |->
                    CandidateMapping(cfg, doc_field, forms[j], similarity_matrices,
                                     doc_index, j)]
        kept == SelectSeq(all, LAMBDA m : ClearsSimilarityFloor(cfg, m.confidence_score))
    IN  SliceTo(SortByConfidenceDescending(kept), Get(cfg, "max_suggestions", 5))

\* a selection that takes the last element of the largest confidence
LastMax(list) ==
    list[CHOOSE k \in 1..Len(list) :
            /\ \A l \in 1..Len(list) :
                   list[l].confidence_score <= list[k].confidence_score
            /\ \A l \in (k + 1)..Len(list) :
                   list[l].confidence_score < list[k].confidence_score]

\* max(list, key=confidence_score): the first element of the largest confidence
FirstMax(list) ==
    list[CHOOSE k \in 1..Len(list) :
            /\ \A l \in 1..Len(list) :
                   list[l].confidence_score <= list[k].confidence_score
            /\ \A l \in 1..(k - 1) :
                   list[l].confidence_score < list[k].confidence_score]

-----------------------------------------------------------------------------
(* Conflict resolution *)

\* the keys of target_groups, last inserted first
RECURSIVE TargetsInReverse(_)
TargetsInReverse(ms) ==
    IF ms = <<>> THEN <<>>
    ELSE LET back == TargetsInReverse(SubSeq(ms, 1, Len(ms) - 1))
             t == ms[Len(ms)].target_field
         IN  IF t \in Range(back) THEN back ELSE <<t>> \o back

\* the targets of ms, each where it occurs last
RECURSIVE TargetsByLastOccurrence(_)
TargetsByLastOccurrence(ms) ==
    IF ms = <<>> THEN <<>>
    ELSE LET rest == TargetsByLastOccurrence(Tail(ms))
             t == ms[1].target_field
         IN  IF t \in Range(rest) THEN rest ELSE <<t>> \o rest

\* the keys of target_groups, in insertion order
RECURSIVE TargetsInOrder(_)
TargetsInOrder(ms) ==
    IF ms = <<>> THEN <<>>
    ELSE LET front == TargetsInOrder(SubSeq(ms, 1, Len(ms) - 1))
             t == ms[Len(ms)].target_field
         IN  IF t \in Range(front) THEN front ELSE Append(front, t)

\* target_groups[target_field]
TargetGroup(ms, target_field) ==
    SelectSeq(ms, LAMBDA m : m.target_field = target_field)

\* the mapping kept for one group
ResolveGroup(group) == IF Len(group) = 1 THEN group[1] ELSE FirstMax(group)

\* a resolver that discards nothing
KeepEveryMapping(ms) == ms

\* _resolve_mapping_conflicts
ResolveMappingConflicts(ms) ==
    Then(TargetsInOrder(ms),
         LAMBDA targets :
            [k \in 1..Len(targets) |-> ResolveGroup(TargetGroup(ms, targets[k]))])

-----------------------------------------------------------------------------
(* map_fields *)

Names(fields) == [k \in 1..Len(fields) |-> fields[k].name]

SetMin(S) == CHOOSE m \in S : \A x \in S : m <= x

\* The Python list with the elements of f; TLC evaluates each element once.
ListOf(f) == SelectSeq(f, LAMBDA x : TRUE)

\* the test of map_fields with its comparison turned around
BelowConfidenceFloor(cfg, confidence) ==
    confidence <= ThresholdAsConf(cfg["confidence_threshold"])

\* the test of map_fields on the best candidate of a source field
ClearsConfidenceFloor(cfg, confidence) ==
    confidence >= ThresholdAsConf(cfg["confidence_threshold"])

\* a selection that forwards every candidate that clears the floor
SelectEveryCandidate(cfg, candidates) ==
    SelectSeq(candidates, LAMBDA m : ClearsConfidenceFloor(cfg, m.confidence_score))

\* a selection that forwards the runner-up with the best candidate
SelectBestAndNext(cfg, candidates) ==
    SelectSeq(SubSeq(candidates, 1, Min(2, Len(candidates))),
              LAMBDA m : ClearsConfidenceFloor(cfg, m.confidence_score))

\* what one iteration of the loop of map_fields appends to `mappings`: the
\* best candidate, if there is a candidate and the best clears the floor
SelectBest(cfg, candidates) ==
    IF candidates # <<>>
       /\ ClearsConfidenceFloor(cfg, FirstMax(candidates).confidence_score)
    THEN <<FirstMax(candidates)>>
    ELSE <<>>

\* `mappings` after the iterations k, k + 1, ... of the loop
RECURSIVE AppendSelected(_, _, _)
AppendSelected(cfg, candidates, k) ==
    IF k > Len(candidates) THEN <<>>
    ELSE SelectBest(cfg, candidates[k]) \o AppendSelected(cfg, candidates, k + 1)

\* the loop of map_fields and the conflict resolution after it
MapFieldsLoop(cfg, docs, forms, similarity_matrices) ==
    Then(ListOf([i \in 1..Len(docs) |->
                    IF "similarity_threshold" \in DOMAIN cfg
                    THEN FindMappingCandidates(cfg, docs[i], forms,
                                               similarity_matrices, i)
                    ELSE <<>>]),
         LAMBDA candidates :
            LET \* the loop raises KeyError in iteration i:
                \* config["similarity_threshold"] is read for the first pair,
                \* config["confidence_threshold"] once the candidate list is
                \* not empty
                raisesAt(i) ==
                    IF "similarity_threshold" \notin DOMAIN cfg
                    THEN forms # <<>>
                    ELSE /\ candidates[i] # <<>>
                         /\ "confidence_threshold" \notin DOMAIN cfg
                raising == {i \in 1..Len(docs) : raisesAt(i)}
                computed ==
                    IF raising = {} THEN (1..Len(docs)) \X (1..Len(forms))
                    ELSE IF "similarity_threshold" \notin DOMAIN cfg
                         THEN {<<1, 1>>}
                    ELSE (1..SetMin(raising)) \X (1..Len(forms))
                best == AppendSelected(cfg, candidates, 1)
            IN  [outcome |-> IF raising = {} THEN "ok" ELSE "KeyError",
                 mappings |-> IF raising = {} THEN ResolveMappingConflicts(best)
                              ELSE <<>>,
                 matrices |-> similarity_matrices,
                 confidences |->
                    [ij \in computed |->
                        CalculateConfidenceScore(cfg, docs[ij[1]], forms[ij[2]],
                                                 similarity_matrices,
                                                 ij[1], ij[2])]])

\* the vocabulary_ a map_fields call leaves
VocabularyAfter(cfg, bert, vocabulary, docs, forms, resp) ==
    ComputeSimilarityMatrices(cfg, bert, vocabulary, Names(docs), Names(forms),
                              resp).vocabulary

\* map_fields: what the call returns or raises, with the matrices and the
\* confidences it computed on the way
MapFieldsRun(cfg, bert, vocabulary, docs, forms, resp) ==
    Then(ComputeSimilarityMatrices(cfg, bert, vocabulary, Names(docs), Names(forms), resp),
         LAMBDA sm :
            IF sm.raised
            THEN [outcome |-> "ValueError", mappings |-> <<>>,
                  matrices |-> EmptyDict, confidences |-> EmptyDict]
            ELSE MapFieldsLoop(cfg, docs, forms, sm.matrices))

-----------------------------------------------------------------------------
(* The inputs the model draws *)

\* the configuration used by the fixtures of tests/test_field_mapping.py
FixtureConfig ==
    [similarity_threshold |-> 60, confidence_threshold |-> 50,
     enable_semantic_matching |-> FALSE, enable_fuzzy_matching |-> TRUE,
     enable_rule_based |-> TRUE]

HighThresholdConfig == [confidence_threshold |-> 90]

DisabledConfig ==
    [enable_semantic_matching |-> FALSE, enable_fuzzy_matching |-> FALSE,
     enable_rule_based |-> TRUE]

FuzzyHeavyConfig ==
    [fuzzy_ratio_weight |-> 8, semantic_weight |-> 1, rule_weight |-> 1,
     enable_semantic_matching |-> FALSE]

NoProviderFlags ==
    [enable_semantic_matching |-> FALSE, enable_fuzzy_matching |-> FALSE,
     enable_rule_based |-> FALSE]

\* the default configuration with some options replaced
WithOptions(options) ==
    [k \in DOMAIN GetDefaultConfig |->
        IF k \in DOMAIN options THEN options[k] ELSE GetDefaultConfig[k]]

SemanticOnlyConfig ==
    WithOptions([enable_fuzzy_matching |-> FALSE, enable_rule_based |-> FALSE])

NoProviderConfig == WithOptions(NoProviderFlags)

NoProviderNoFloorConfig ==
    WithOptions([enable_semantic_matching |-> FALSE,
                 enable_fuzzy_matching |-> FALSE, enable_rule_based |-> FALSE,
                 similarity_threshold |-> 0, confidence_threshold |-> 0])

NoProviderOneFloorConfig ==
    WithOptions([enable_semantic_matching |-> FALSE,
                 enable_fuzzy_matching |-> FALSE, enable_rule_based |-> FALSE,
                 similarity_threshold |-> 0])

\* configurations outside the documented ranges: a negative fusion weight and
\* a threshold above 1
NegativeWeightConfig ==
    WithOptions([fuzzy_ratio_weight |-> -1, enable_semantic_matching |-> FALSE])

ThresholdAboveOneConfig ==
    WithOptions([similarity_threshold |-> 150, enable_semantic_matching |-> FALSE])

\* a configuration whose candidate floor is well below its selection floor
WideBandConfig ==
    WithOptions([similarity_threshold |-> 30, enable_semantic_matching |-> FALSE])

ConfigNone == [isNone |-> TRUE, dict |-> EmptyDict]
ConfigDict(d) == [isNone |-> FALSE, dict |-> d]

\* the arguments __init__ is called with
ConfigArgs ==
    {ConfigNone} \cup
    {ConfigDict(d) : d \in {EmptyDict, FixtureConfig, HighThresholdConfig,
                            DisabledConfig, FuzzyHeavyConfig, NoProviderFlags,
                            SemanticOnlyConfig, NoProviderConfig,
                            NoProviderNoFloorConfig, NoProviderOneFloorConfig,
                            NegativeWeightConfig, ThresholdAboveOneConfig,
                            WideBandConfig}}

\* a configuration that limits the candidate list to n entries, with a low
\* candidate floor
SuggestionsConfig(n) ==
    WithOptions([max_suggestions |-> n, similarity_threshold |-> 30,
                 enable_semantic_matching |-> FALSE])

\* the arguments __init__ is called with where candidate lists are looked at
SuggestionConfigArgs ==
    {ConfigDict(SuggestionsConfig(n)) : n \in {0, 1, 2}}
        \cup {ConfigDict(FixtureConfig)}

\* the one-entry matrices handed directly to _calculate_confidence_score:
\* those of test_confidence_scoring, every provider at its maximum, the two
\* providers of the fixture at their maximum, a negative cosine alone, none
ScoreMatrixPool ==
    {[fuzzy |-> <<<<8000>>>>, rule_based |-> <<<<9000>>>>],
     [fuzzy |-> <<<<ScoreOne>>>>, semantic |-> <<<<ScoreOne>>>>,
      rule_based |-> <<<<ScoreOne>>>>],
     [fuzzy |-> <<<<ScoreOne>>>>, rule_based |-> <<<<ScoreOne>>>>],
     [fuzzy |-> <<<<5000>>>>, semantic |-> <<<<2000>>>>, rule_based |-> <<<<0>>>>],
     [semantic |-> <<<<-ScoreOne>>>>],
     EmptyDict}

\* mappings handed directly to _resolve_mapping_conflicts, as
\* test_conflict_resolution does
MappingPool ==
    {FieldMapping(s, t, c, "TEXT", "FUZZY", EmptyDict) :
        s \in {"doc_field1", "doc_field2", "doc_field3"},
        t \in {"form_field", "form_field2"},
        c \in {ThresholdAsConf(70), ThresholdAsConf(80)}}

-----------------------------------------------------------------------------
(* The state machine *)

NoCall ==
    /\ arg_document_fields = <<>>
    /\ arg_form_fields = <<>>
    /\ embedResp = "not_called"
    /\ vocabularyBefore = {}
    /\ matrices = EmptyDict
    /\ confidences = EmptyDict
    /\ outcome = "none"
    /\ resolveInput = <<>>
    /\ mappings = <<>>
    /\ arg_mapping = "none"
    /\ arg_value = "none"
    /\ result = "none"

\* no command of a script: the argument that is left out of a command line,
\* and the estimate that is left out or 0, which complete_tracking treats
\* alike
NoCommand ==
    [script |-> "none", name |-> "none", args |-> <<>>, choice |-> "not_asked",
     estimated_minutes |-> 0]

\* a state file that does not exist, and one that holds a state
NoFile == <<>>
FileOf(state) == <<state>>

\* no script has run: neither state file exists
NoScriptRun ==
    /\ execution_file = NoFile
    /\ tracking_file = NoFile
    /\ command = NoCommand
    /\ fileBefore = NoFile
    /\ exit_code = 0
    /\ key_history = EmptyDict

Init ==
    /\ pc = "new"
    /\ config = EmptyDict
    /\ bert_model = "None"
    /\ tfidf_vectorizer = "None"
    /\ vocabulary_ = {}
    /\ configArg = ConfigNone
    /\ NoCall
    /\ NoScriptRun

\* IntelligentFieldMapper.__init__(config)
Construct(arg, load) ==
    /\ pc = "new"
    /\ \E after \in {InitializeComponents(InitialConfig(arg), load)} :
           /\ config' = after.config
           /\ bert_model' = after.bert_model
           /\ tfidf_vectorizer' = after.tfidf_vectorizer
    /\ configArg' = arg
    /\ pc' = "ready"
    /\ UNCHANGED <<vocabulary_, vocabularyBefore>>
    /\ UNCHANGED <<arg_document_fields, arg_form_fields, embedResp, matrices,
                   confidences, outcome, resolveInput, mappings, helperVars>>
    /\ UNCHANGED scriptVars

\* map_fields(document_fields, form_fields), the embedding collaborator
\* answering with resp
MapFields(docs, forms, resp) ==
    /\ pc = "ready"
    /\ resp \in IF "semantic" \in ActiveProviders(config, bert_model)
                THEN EmbedResponses ELSE {"not_called"}
    /\ \E run \in {MapFieldsRun(config, bert_model, vocabulary_, docs, forms, resp)} :
           /\ outcome' = run.outcome
           /\ mappings' = run.mappings
           /\ matrices' = run.matrices
           /\ confidences' = run.confidences
    /\ arg_document_fields' = docs
    /\ arg_form_fields' = forms
    /\ embedResp' = resp
    /\ vocabularyBefore' = vocabulary_
    /\ vocabulary_' = VocabularyAfter(config, bert_model, vocabulary_, docs, forms, resp)
    /\ pc' = "mapped"
    /\ UNCHANGED <<config, bert_model, tfidf_vectorizer, configArg, resolveInput,
                   helperVars>>
    /\ UNCHANGED scriptVars

\* _resolve_mapping_conflicts(ms), called directly.  The method reads nothing
\* of the mapper, so the model calls it on one mapper only: the one of the
\* fixture of test_conflict_resolution.
ResolveConflicts(ms) ==
    /\ pc = "ready"
    /\ configArg = ConfigDict(FixtureConfig)
    /\ resolveInput' = ms
    /\ mappings' = ResolveMappingConflicts(ms)
    /\ outcome' = "ok"
    /\ pc' = "resolved"
    /\ UNCHANGED <<config, bert_model, tfidf_vectorizer, vocabulary_, configArg,
                   vocabularyBefore,
                   arg_document_fields, arg_form_fields, embedResp, matrices,
                   confidences, helperVars>>
    /\ UNCHANGED scriptVars

\* _resolve_mapping_conflicts called on the list a call returned
ResolveAgain ==
    /\ pc \in {"mapped", "resolved"}
    /\ outcome = "ok"
    /\ resolveInput' = mappings
    /\ mappings' = ResolveMappingConflicts(mappings)
    /\ pc' = "resolved"
    /\ UNCHANGED <<config, bert_model, tfidf_vectorizer, vocabulary_, configArg,
                   vocabularyBefore,
                   arg_document_fields, arg_form_fields, embedResp, matrices,
                   confidences, outcome, helperVars>>
    /\ UNCHANGED scriptVars

\* _calculate_confidence_score(doc_field, form_field, similarity_matrices, 0, 0)
\* called directly on matrices of one entry, as test_confidence_scoring does
CalculateConfidence(doc_field, form_field, similarity_matrices) ==
    /\ pc = "ready"
    /\ arg_document_fields' = <<doc_field>>
    /\ arg_form_fields' = <<form_field>>
    /\ matrices' = similarity_matrices
    /\ confidences' =
           (<<1, 1>> :> CalculateConfidenceScore(config, doc_field, form_field,
                                                similarity_matrices, 1, 1))
    /\ outcome' = "ok"
    /\ pc' = "scored"
    /\ UNCHANGED <<config, bert_model, tfidf_vectorizer, vocabulary_, configArg,
                   vocabularyBefore, embedResp,
                   resolveInput, mappings, helperVars>>
    /\ UNCHANGED scriptVars

\* _calculate_type_compatibility_bonus(doc_field, form_field) called directly,
\* as test_type_compatibility_bonus does
CalculateBonus(doc_field, form_field) ==
    /\ pc = "ready"
    /\ arg_document_fields' = <<doc_field>>
    /\ arg_form_fields' = <<form_field>>
    /\ result' = CalculateTypeCompatibilityBonus(doc_field, form_field)
    /\ outcome' = "ok"
    /\ pc' = "bonus"
    /\ UNCHANGED <<config, bert_model, tfidf_vectorizer, vocabulary_, configArg,
                   vocabularyBefore, embedResp,
                   matrices, confidences, resolveInput, mappings, arg_mapping,
                   arg_value>>
    /\ UNCHANGED scriptVars

\* _find_mapping_candidates(doc_field, form_fields, similarity_matrices, 0)
\* called directly, with the matrices _compute_similarity_matrices gives for
\* the names; the configuration has similarity_threshold and no semantic
\* provider
FindCandidates(doc_field, forms) ==
    /\ pc = "ready"
    /\ "similarity_threshold" \in DOMAIN config
    /\ "semantic" \notin ActiveProviders(config, bert_model)
    /\ \E sm \in {ComputeSimilarityMatrices(config, bert_model, vocabulary_,
                                             <<doc_field.name>>, Names(forms),
                                             "not_called")} :
           /\ matrices' = sm.matrices
           /\ confidences' =
                  [ij \in {1} \X (1..Len(forms)) |->
                      CalculateConfidenceScore(config, doc_field, forms[ij[2]],
                                               sm.matrices, 1, ij[2])]
           /\ result' = FindMappingCandidates(config, doc_field, forms,
                                              sm.matrices, 1)
    /\ arg_document_fields' = <<doc_field>>
    /\ arg_form_fields' = forms
    /\ outcome' = "ok"
    /\ pc' = "candidates"
    /\ UNCHANGED <<config, bert_model, tfidf_vectorizer, vocabulary_, configArg,
                   vocabularyBefore, embedResp, resolveInput, mappings,
                   arg_mapping, arg_value>>
    /\ UNCHANGED scriptVars

\* _infer_field_type(doc_field, form_field) called directly, as
\* test_field_type_inference does.  The method reads nothing of the mapper,
\* so the model calls it on one mapper only: the one of the fixture.
InferType(doc_field, form_field) ==
    /\ pc = "ready"
    /\ configArg = ConfigDict(FixtureConfig)
    /\ arg_document_fields' = <<doc_field>>
    /\ arg_form_fields' = <<form_field>>
    /\ result' = InferFieldType(doc_field, form_field)
    /\ outcome' = "ok"
    /\ pc' = "inferred"
    /\ UNCHANGED <<config, bert_model, tfidf_vectorizer, vocabulary_, configArg,
                   vocabularyBefore, embedResp, matrices, confidences,
                   resolveInput, mappings, arg_mapping, arg_value>>
    /\ UNCHANGED scriptVars

\* _apply_mapping_rules(doc_field, form_field) called directly on two
\* names.  The method reads nothing of the mapper, so the model calls it on
\* one mapper only: the one of the fixture.  The argument lists hold the
\* names themselves.
ApplyRules(doc_field, form_field) ==
    /\ pc = "ready"
    /\ configArg = ConfigDict(FixtureConfig)
    /\ arg_document_fields' = <<doc_field>>
    /\ arg_form_fields' = <<form_field>>
    /\ result' = ApplyMappingRules(doc_field, form_field)
    /\ outcome' = "ok"
    /\ pc' = "ruled"
    /\ UNCHANGED <<config, bert_model, tfidf_vectorizer, vocabulary_, configArg,
                   vocabularyBefore, embedResp, matrices, confidences,
                   resolveInput, mappings, arg_mapping, arg_value>>
    /\ UNCHANGED scriptVars

\* the characters re's \d matches among those of the modelled values
DecimalDigits == {"0", "1", "2", "3", "4", "5", "6", "7", "8", "9"}

\* a check that counts every character of the value
ValidatePhoneByLength(value) ==
    Len(value) \in {10, 11, 12}

\* re.sub(r'\D', '', s): s without its non-digit characters
RECURSIVE DigitsFrom(_, _)
DigitsFrom(s, i) ==
    IF i > Len(s) THEN ""
    ELSE IF Ch(s, i) \in DecimalDigits THEN Ch(s, i) \o DigitsFrom(s, i + 1)
    ELSE DigitsFrom(s, i + 1)

\* _validate_phone
ValidatePhone(value) ==
    Len(DigitsFrom(value, 1)) \in {10, 11, 12}

\* the field types validate_data_types has a format check for
CheckedTypes == {"EMAIL", "PHONE", "DATE", "NUMBER", "CURRENCY"}

\* validate_data_types(mapping, value).  The model calls it for PHONE mappings
\* and for mappings of the types that have no format check.
ValidateDataTypes(mapping, value) ==
    /\ pc = "ready"
    /\ mapping.field_type \in {"PHONE"} \cup (FieldType \ CheckedTypes)
    /\ arg_mapping' = mapping
    /\ arg_value' = value
    /\ result' = IF mapping.field_type = "PHONE" THEN ValidatePhone(value)
                  ELSE TRUE
    /\ outcome' = "ok"
    /\ pc' = "validated"
    /\ UNCHANGED <<config, bert_model, tfidf_vectorizer, vocabulary_, configArg,
                   vocabularyBefore, arg_document_fields, arg_form_fields,
                   embedResp, matrices, confidences, resolveInput, mappings>>
    /\ UNCHANGED scriptVars

\* the caller is done with the result; the mapper is ready for the next call
Return ==
    /\ pc \in {"mapped", "resolved", "scored", "bonus", "validated", "candidates",
              "inferred", "ruled"}
    /\ pc' = "ready"
    /\ arg_document_fields' = <<>>
    /\ arg_form_fields' = <<>>
    /\ embedResp' = "not_called"
    /\ vocabularyBefore' = {}
    /\ matrices' = EmptyDict
    /\ confidences' = EmptyDict
    /\ outcome' = "none"
    /\ resolveInput' = <<>>
    /\ mappings' = <<>>
    /\ arg_mapping' = "none"
    /\ arg_value' = "none"
    /\ result' = "none"
    /\ UNCHANGED <<config, bert_model, tfidf_vectorizer, vocabulary_, configArg>>
    /\ UNCHANGED scriptVars

\* the caller is done with the mapper as well: every test of
\* tests/test_field_mapping.py gets a mapper of its own from its fixture
Discard ==
    /\ pc \in {"mapped", "resolved", "scored", "bonus", "validated", "candidates",
              "inferred", "ruled"}
    /\ pc' = "new"
    /\ config' = EmptyDict
    /\ bert_model' = "None"
    /\ tfidf_vectorizer' = "None"
    /\ vocabulary_' = {}
    /\ configArg' = ConfigNone
    /\ arg_document_fields' = <<>>
    /\ arg_form_fields' = <<>>
    /\ embedResp' = "not_called"
    /\ vocabularyBefore' = {}
    /\ matrices' = EmptyDict
    /\ confidences' = EmptyDict
    /\ outcome' = "none"
    /\ resolveInput' = <<>>
    /\ mappings' = <<>>
    /\ arg_mapping' = "none"
    /\ arg_value' = "none"
    /\ result' = "none"
    /\ UNCHANGED scriptVars

\* a call of the constructor, with what loading the components does
ConstructCall ==
    /\ pc = "new"
    /\ \E arg \in ConfigArgs, load \in LoadResponses : Construct(arg, load)

\* a call of map_fields, with what the embedding collaborator does
MapFieldsCall ==
    /\ pc = "ready"
    /\ \E docs \in SeqsUpTo(DocumentFieldPool, MaxFields),
          forms \in SeqsUpTo(FormFieldPool, MaxFields),
          resp \in EmbedResponses \cup {"not_called"} :
            MapFields(docs, forms, resp)

\* a direct call of _resolve_mapping_conflicts
ResolveConflictsCall ==
    /\ pc = "ready"
    /\ configArg = ConfigDict(FixtureConfig)
    /\ \E ms \in SeqsUpTo(MappingPool, MaxMappings) : ResolveConflicts(ms)

\* a direct call of _calculate_confidence_score; the names are those of
\* test_type_compatibility_bonus's form fields
CalculateConfidenceCall ==
    /\ pc = "ready"
    /\ \E doc_type \in FieldType, form_type \in FieldType,
          similarity_matrices \in ScoreMatrixPool :
            CalculateConfidence(Field("email", doc_type), Field("email", form_type),
                                similarity_matrices)

\* a direct call of _calculate_type_compatibility_bonus
CalculateBonusCall ==
    /\ pc = "ready"
    /\ \E doc_type \in FieldType, form_type \in FieldType :
            CalculateBonus(Field("user_email", doc_type), Field("email", form_type))

\* the values handed to validate_data_types: those of
\* test_data_type_validation, the empty string, and numbers of 7, 9, 11, 12 and
\* 13 digits
ValuePool ==
    {"555-123-4567", "abc-def-ghij", "", "555-1234", "123456789",
     "1-555-123-4567", "+44 20 7946 0958", "1234567890123"}

\* a call of validate_data_types, on a mapping like those of
\* test_data_type_validation
ValidateDataTypesCall ==
    /\ pc = "ready"
    /\ \E field_type \in FieldType, value \in ValuePool :
            ValidateDataTypes(FieldMapping("phone", "phoneNum", ThresholdAsConf(90),
                                           field_type, "FUZZY", EmptyDict), value)

\* the names handed to _infer_field_type: those of
\* test_field_type_inference, names with a keyword of two types, of one type
\* in upper case, and of none
SourceNamePool ==
    {"user_email", "tel_e-mail", "phone_date", "birth_name", "LAST_CITY",
     "street_price", "salary", "xyz123"}

TargetNamePool == {"contact_email", "phoneNum"}

\* a direct call of _infer_field_type
InferTypeCall ==
    /\ pc = "ready"
    /\ configArg = ConfigDict(FixtureConfig)
    /\ \E doc_name \in SourceNamePool, form_name \in TargetNamePool,
          doc_type \in FieldType, form_type \in FieldType :
            InferType(Field(doc_name, doc_type), Field(form_name, form_type))

\* the names handed to _apply_mapping_rules: names of several words, in
\* either case, names one pattern pair matches in one direction only, a name
\* inside another, the same words in another order, and the empty name
RuleNamePool ==
    {"First Name", "first name", "name first", "last name", "given name first",
     "email address", "email", "salary", "income", "name", ""}

\* a direct call of _apply_mapping_rules
ApplyRulesCall ==
    /\ pc = "ready"
    /\ configArg = ConfigDict(FixtureConfig)
    /\ \E doc_name \in RuleNamePool, form_name \in RuleNamePool :
            ApplyRules(doc_name, form_name)

Next ==
    \/ ConstructCall
    \/ MapFieldsCall
    \/ ResolveConflictsCall
    \/ CalculateConfidenceCall
    \/ CalculateBonusCall
    \/ ValidateDataTypesCall
    \/ InferTypeCall
    \/ ApplyRulesCall
    \/ ResolveAgain
    \/ Discard

\* every mapper serves one call
Spec == Init /\ [][Next]_vars

\* a call of the constructor without a configuration
ConstructDefaultCall ==
    /\ pc = "new"
    /\ \E load \in LoadResponses : Construct(ConfigNone, load)

\* a call of map_fields with short lists
MapFieldsShortCall ==
    /\ pc = "ready"
    /\ \E docs \in SeqsUpTo(DocumentFieldPool, MaxShortFields),
          forms \in SeqsUpTo(FormFieldPool, MaxShortFields),
          resp \in EmbedResponses \cup {"not_called"} :
            MapFields(docs, forms, resp)

NextOnOneMapper ==
    \/ ConstructDefaultCall
    \/ MapFieldsShortCall
    \/ Return

\* one mapper with the default configuration serves call after call
SpecReuse == Init /\ [][NextOnOneMapper]_vars

\* a call of the constructor with a limit on the candidate list
ConstructSuggestionsCall ==
    /\ pc = "new"
    /\ \E arg \in SuggestionConfigArgs, load \in LoadResponses :
            Construct(arg, load)

\* a direct call of _find_mapping_candidates
FindCandidatesCall ==
    /\ pc = "ready"
    /\ \E doc_field \in DocumentFieldPool,
          forms \in SeqsUpTo(FormFieldPool, MaxFields) :
            FindCandidates(doc_field, forms)

\* a call of map_fields with few source fields, on a mapper with a limit on
\* the candidate list
MapFieldsFewSourcesCall ==
    /\ pc = "ready"
    /\ \E docs \in SeqsUpTo(DocumentFieldPool, MaxShortFields),
          forms \in SeqsUpTo(FormFieldPool, MaxFields) :
            MapFields(docs, forms, "not_called")

NextCandidates ==
    \/ ConstructSuggestionsCall
    \/ FindCandidatesCall
    \/ MapFieldsFewSourcesCall
    \/ Discard

\* every mapper with a limit on the candidate list serves one call, of
\* _find_mapping_candidates or of map_fields
SpecCandidates == Init /\ [][NextCandidates]_vars

NextShort ==
    \/ ConstructCall
    \/ MapFieldsShortCall
    \/ Discard

\* every mapper serves one call with short lists
SpecShort == Init /\ [][NextShort]_vars

-----------------------------------------------------------------------------
(* src/.taskmaster/scripts/execution-state.py *)

\* Python's None in a field that otherwise holds a string
None == "None"

\* the instants datetime.now shows to the commands: whole minutes.  The
\* clock is the machine's, and nothing keeps it from showing an earlier
\* instant to a later command.
Instants == {0, 1}

\* datetime.isoformat() and datetime.fromisoformat()
IsoFormat(t) == ToString(t)
FromIsoFormat(text) == CHOOSE t \in Instants : IsoFormat(t) = text

\* the arguments of the commands
ModePool == {"sequential"}
TaskIdPool == {"1", "1.1"}
SubtaskIdPool == {"1"}

\* what the user types when start_execution asks; anything but 1 starts fresh
ChoicePool == {"1", "2", ""}

\* load_state of execution-state.py
ExecutionLoadState(file) ==
    IF file # NoFile THEN file[1]
    ELSE [mode |-> None, task_id |-> None, subtask_id |-> None,
          last_updated |-> None, completed_tasks |-> <<>>,
          completed_subtasks |-> <<>>, in_progress |-> FALSE]

\* save_state of execution-state.py: the file it writes
ExecutionSaveState(state, now) ==
    FileOf([state EXCEPT !.last_updated = IsoFormat(now)])

\* an append that does not look at the list
AppendAlways(list, x) == Append(list, x)

\* if x not in list: list.append(x)
AppendIfNew(list, x) ==
    IF x \in Range(list) THEN list ELSE Append(list, x)

\* a command of execution-state.py ran to its end and wrote `file`
ExecutionCommandRan(name, args, choice, file) ==
    /\ execution_file' = file
    /\ fileBefore' = execution_file
    /\ command' = [script |-> "execution-state", name |-> name, args |-> args,
                   choice |-> choice, estimated_minutes |-> 0]
    /\ exit_code' = 0
    /\ UNCHANGED <<tracking_file, key_history, mapperVars>>

\* start_execution(mode); the user answers `choice` if the function asks
StartExecution(mode, choice, now) ==
    LET state == ExecutionLoadState(execution_file)
        fresh == [state EXCEPT !.mode = mode, !.task_id = None,
                               !.subtask_id = None, !.completed_tasks = <<>>,
                               !.completed_subtasks = <<>>, !.in_progress = TRUE]
    IN  /\ choice \in IF state.in_progress THEN ChoicePool ELSE {"not_asked"}
        /\ ExecutionCommandRan("start", <<mode>>, choice,
                               IF choice = "1" THEN execution_file
                               ELSE ExecutionSaveState(fresh, now))

\* update_task(task_id, subtask_id)
UpdateTask(task_id, subtask_id, now) ==
    LET state == ExecutionLoadState(execution_file)
    IN  ExecutionCommandRan("update", <<task_id, subtask_id>>, "not_asked",
            ExecutionSaveState([state EXCEPT !.task_id = task_id,
                                             !.subtask_id = subtask_id,
                                             !.in_progress = TRUE], now))

\* complete_subtask(task_id, subtask_id)
CompleteSubtask(task_id, subtask_id, now) ==
    LET state == ExecutionLoadState(execution_file)
        subtask_key == task_id \o "." \o subtask_id
        completed == AppendIfNew(state.completed_subtasks, subtask_key)
    IN  /\ Len(completed) <= MaxCompleted
        /\ ExecutionCommandRan("complete-subtask", <<task_id, subtask_id>>,
                               "not_asked",
                               ExecutionSaveState(
                                   [state EXCEPT !.completed_subtasks = completed],
                                   now))

\* complete_task(task_id)
CompleteTask(task_id, now) ==
    LET state == ExecutionLoadState(execution_file)
        completed == AppendIfNew(state.completed_tasks, task_id)
        current == state.task_id = task_id
    IN  /\ Len(completed) <= MaxCompleted
        /\ ExecutionCommandRan("complete-task", <<task_id>>, "not_asked",
               ExecutionSaveState(
                   [state EXCEPT !.completed_tasks = completed,
                                 !.task_id = IF current THEN None ELSE @,
                                 !.subtask_id = IF current THEN None ELSE @],
                   now))

\* end_execution()
EndExecution(now) ==
    LET state == ExecutionLoadState(execution_file)
    IN  ExecutionCommandRan("end", <<>>, "not_asked",
                            ExecutionSaveState([state EXCEPT !.in_progress = FALSE],
                                               now))

StartExecutionCall ==
    \E mode \in ModePool, choice \in ChoicePool \cup {"not_asked"},
       now \in Instants :
        StartExecution(mode, choice, now)

UpdateTaskCall ==
    \E task_id \in TaskIdPool, subtask_id \in SubtaskIdPool \cup {None},
       now \in Instants :
        UpdateTask(task_id, subtask_id, now)

CompleteSubtaskCall ==
    \E task_id \in TaskIdPool, subtask_id \in SubtaskIdPool, now \in Instants :
        CompleteSubtask(task_id, subtask_id, now)

CompleteTaskCall ==
    \E task_id \in TaskIdPool, now \in Instants : CompleteTask(task_id, now)

EndExecutionCall ==
    \E now \in Instants : EndExecution(now)

NextExecution ==
    \/ StartExecutionCall
    \/ UpdateTaskCall
    \/ CompleteSubtaskCall
    \/ CompleteTaskCall
    \/ EndExecutionCall

\* the commands of execution-state.py that write the state file, one after
\* another, from no state file
SpecExecution == Init /\ [][NextExecution]_vars

-----------------------------------------------------------------------------
(* src/.taskmaster/scripts/track-time.py *)

\* the arguments of the commands; an estimate is in minutes, and an estimate
\* of 2 minutes makes the accuracy a whole number of percent
TrackedTaskPool == {"1"}
TrackedSubtaskPool == {None, "", "1"}
EstimatePool == {0, 2}

\* load_state of track-time.py
TrackingLoadState(file) ==
    IF file # NoFile THEN file[1] ELSE [tasks |-> EmptyDict]

\* key = f"{task_id}.{subtask_id}" if subtask_id else task_id
TrackingKey(task_id, subtask_id) ==
    IF subtask_id # None /\ subtask_id # ""
    THEN task_id \o "." \o subtask_id
    ELSE task_id

\* dict[key] = value
SetItem(dict, key, value) == (key :> value) @@ dict

\* start_tracking: the state it saves
StartTrackingRun(state, key, now) ==
    LET entry == IF key \in DOMAIN state.tasks THEN state.tasks[key] ELSE EmptyDict
        started == SetItem(SetItem(entry, "start", IsoFormat(now)),
                           "status", "in_progress")
    IN  [state EXCEPT !.tasks = SetItem(state.tasks, key, started)]

\* a complete_tracking that takes a key without a start time as started now
CompleteWithoutStart(state, key, estimated_minutes, now) ==
    LET entry == IF key \in DOMAIN state.tasks THEN state.tasks[key] ELSE EmptyDict
        completed ==
            SetItem(SetItem(SetItem(SetItem(entry, "start",
                                            Get(entry, "start", IsoFormat(now))),
                                    "end", IsoFormat(now)),
                            "duration_minutes",
                            now - FromIsoFormat(Get(entry, "start", IsoFormat(now)))),
                    "status", "completed")
    IN  [exit_code |-> 0,
         state |-> [state EXCEPT !.tasks = SetItem(state.tasks, key, completed)]]

\* complete_tracking: its exit code and, when it gets so far, the state it
\* saves.  Instants are whole minutes, so round(duration, 1) is the
\* difference itself.
CompleteTrackingRun(state, key, estimated_minutes, now) ==
    IF key \notin DOMAIN state.tasks \/ "start" \notin DOMAIN state.tasks[key]
    THEN [exit_code |-> 1, state |-> state]
    ELSE LET entry == state.tasks[key]
             duration == now - FromIsoFormat(entry["start"])
             completed ==
                 SetItem(SetItem(SetItem(entry, "end", IsoFormat(now)),
                                 "duration_minutes", duration),
                         "status", "completed")
             estimated ==
                 IF estimated_minutes # 0
                 THEN SetItem(SetItem(completed, "estimated_minutes",
                                      estimated_minutes),
                              "accuracy_percent",
                              (duration * 100) \div estimated_minutes)
                 ELSE completed
         IN  [exit_code |-> 0,
              state |-> [state EXCEPT !.tasks = SetItem(state.tasks, key, estimated)]]

\* start_tracking(task_id, subtask_id)
StartTracking(task_id, subtask_id, now) ==
    LET key == TrackingKey(task_id, subtask_id)
    IN  /\ tracking_file' =
               FileOf(StartTrackingRun(TrackingLoadState(tracking_file), key, now))
        /\ fileBefore' = tracking_file
        /\ command' = [script |-> "track-time", name |-> "start",
                       args |-> <<task_id, subtask_id>>, choice |-> "not_asked",
                       estimated_minutes |-> 0]
        /\ exit_code' = 0
        /\ key_history' = SetItem(key_history, key, "started")
        /\ UNCHANGED <<execution_file, mapperVars>>

\* complete_tracking(task_id, subtask_id, estimated_minutes): sys.exit(1)
\* comes before save_state
CompleteTracking(task_id, subtask_id, estimated_minutes, now) ==
    LET key == TrackingKey(task_id, subtask_id)
        run == CompleteTrackingRun(TrackingLoadState(tracking_file), key,
                                   estimated_minutes, now)
    IN  /\ tracking_file' = IF run.exit_code = 0 THEN FileOf(run.state)
                            ELSE tracking_file
        /\ fileBefore' = tracking_file
        /\ command' = [script |-> "track-time", name |-> "complete",
                       args |-> <<task_id, subtask_id>>, choice |-> "not_asked",
                       estimated_minutes |-> estimated_minutes]
        /\ exit_code' = run.exit_code
        /\ key_history' =
               IF Get(key_history, key, "none") = "none" THEN key_history
               ELSE SetItem(key_history, key, "completed")
        /\ UNCHANGED <<execution_file, mapperVars>>

StartTrackingCall ==
    \E task_id \in TrackedTaskPool, subtask_id \in TrackedSubtaskPool,
       now \in Instants :
        StartTracking(task_id, subtask_id, now)

CompleteTrackingCall ==
    \E task_id \in TrackedTaskPool, subtask_id \in TrackedSubtaskPool,
       estimated_minutes \in EstimatePool, now \in Instants :
        CompleteTracking(task_id, subtask_id, estimated_minutes, now)

NextTracking ==
    \/ StartTrackingCall
    \/ CompleteTrackingCall

\* the commands of track-time.py that write the state file, one after
\* another, from no state file
SpecTracking == Init /\ [][NextTracking]_vars

-----------------------------------------------------------------------------
(* Properties *)

\* a call has returned a list (map_fields or _resolve_mapping_conflicts)
Returned == pc \in {"mapped", "resolved"} /\ outcome = "ok"

\* the positions of ms whose mapping names target t
PositionsOf(ms, t) == {k \in 1..Len(ms) : ms[k].target_field = t}

\* C1: the list returned by _resolve_mapping_conflicts, and so every list
\* returned by map_fields, names each target_field in at most one mapping.
C1_EachTargetAtMostOnce ==
    Returned =>
        \A k, l \in 1..Len(mappings) :
            mappings[k].target_field = mappings[l].target_field => k = l

\* the resolver was given two mappings of one target and has returned
C1_ResolvedAConflict ==
    /\ pc = "resolved"
    /\ mappings # <<>>
    /\ \E k, l \in 1..Len(resolveInput) :
          k # l /\ resolveInput[k].target_field = resolveInput[l].target_field

\* C2: of the mappings of the resolver's input that name one target, the
\* survivor is one of the highest confidence_score, and among those of the
\* highest score it is the one that comes first in the input.
C2_SurvivorIsFirstHighest ==
    pc = "resolved" =>
        \A t \in {resolveInput[k].target_field : k \in 1..Len(resolveInput)} :
            LET group == PositionsOf(resolveInput, t)
                top == {k \in group :
                          \A l \in group : resolveInput[l].confidence_score
                                              <= resolveInput[k].confidence_score}
                first == CHOOSE k \in top : \A l \in top : k <= l
            IN  /\ Cardinality(PositionsOf(mappings, t)) = 1
                /\ \A k \in PositionsOf(mappings, t) :
                       mappings[k] = resolveInput[first]

\* the resolver has returned for an input where two sources share the highest
\* score for a target that a third, lower mapping names as well
C2_ResolvedATie ==
    /\ pc = "resolved"
    /\ \E k, l, m \in 1..Len(resolveInput) :
          /\ k < l
          /\ resolveInput[k].target_field = resolveInput[l].target_field
          /\ resolveInput[m].target_field = resolveInput[k].target_field
          /\ resolveInput[k].confidence_score = resolveInput[l].confidence_score
          /\ resolveInput[m].confidence_score < resolveInput[k].confidence_score
          /\ resolveInput[k].source_field # resolveInput[l].source_field
          /\ resolveInput[k] \in Range(mappings)

\* C3: conflict resolution is idempotent: resolving a list the resolver
\* returned gives the same list, same elements in the same order.
C3_ResolverIdempotent ==
    Returned => ResolveMappingConflicts(mappings) = mappings

\* the resolver ran on a list of two mappings that is a list it returns, and
\* returned it unchanged
C3_ResolvedTwice ==
    /\ pc = "resolved"
    /\ resolveInput = mappings
    /\ Len(mappings) >= 2

\* C4: every mapping map_fields returns is the fused confidence of a pair of
\* its source and target names that is at least similarity_threshold and at
\* least confidence_threshold; a pair below either floor is not returned.
C4_ReturnedMappingsClearBothFloors ==
    (pc = "mapped" /\ outcome = "ok") =>
        \A k \in 1..Len(mappings) :
            /\ mappings[k].confidence_score
                   >= ThresholdAsConf(config["similarity_threshold"])
            /\ mappings[k].confidence_score
                   >= ThresholdAsConf(config["confidence_threshold"])
            /\ \E ij \in DOMAIN confidences :
                  /\ arg_document_fields[ij[1]].name = mappings[k].source_field
                  /\ arg_form_fields[ij[2]].name = mappings[k].target_field
                  /\ confidences[ij] = mappings[k].confidence_score

\* map_fields returned a mapping and left out a pair that is below the
\* similarity floor
C4_FilteredAndReturned ==
    /\ pc = "mapped"
    /\ outcome = "ok"
    /\ mappings # <<>>
    /\ \E ij \in DOMAIN confidences :
          confidences[ij] < ThresholdAsConf(config["similarity_threshold"])

\* C5: every fused confidence _calculate_confidence_score computes is within
\* [0, 1], a negative cosine of the semantic provider included, and so is the
\* confidence_score of every returned mapping.
C5_ConfidenceWithinUnitInterval ==
    /\ \A ij \in DOMAIN confidences :
          0 <= confidences[ij] /\ confidences[ij] <= ConfOne
    /\ Returned =>
          \A k \in 1..Len(mappings) :
              /\ 0 <= mappings[k].confidence_score
              /\ mappings[k].confidence_score <= ConfOne

\* C6: one source and one target of the same name and the same declared type,
\* the lexical and the rule-based provider active, both thresholds at most
\* 0.9: map_fields returns exactly one mapping, of that source to that target,
\* with confidence_score > 0.9 and strategy RULE_BASED or EXACT.
C6_IdenticalFieldsMapRuleBased ==
    ( /\ pc = "mapped"
      /\ Len(arg_document_fields) = 1
      /\ Len(arg_form_fields) = 1
      /\ arg_document_fields[1] = arg_form_fields[1]
      /\ ActiveProviders(config, bert_model) = {"fuzzy", "rule_based"}
      /\ "similarity_threshold" \in DOMAIN config
      /\ "confidence_threshold" \in DOMAIN config
      /\ config["similarity_threshold"] <= 90
      /\ config["confidence_threshold"] <= 90 )
    => /\ outcome = "ok"
       /\ Len(mappings) = 1
       /\ mappings[1].source_field = arg_document_fields[1].name
       /\ mappings[1].target_field = arg_form_fields[1].name
       /\ mappings[1].confidence_score > ThresholdAsConf(90)
       /\ mappings[1].matching_strategy \in {"RULE_BASED", "EXACT"}

\* the options the defaults of which C7 names
DocumentedDefaults ==
    {"similarity_threshold", "confidence_threshold", "max_suggestions",
     "fuzzy_ratio_weight", "semantic_weight", "rule_weight"}

\* C7: a mapper constructed with a configuration that sets only some of the
\* recognized options has the documented default for every option left unset,
\* and map_fields on it completes without an error.
C7_PartialConfigUsesDefaults ==
    ( /\ pc # "new"
      /\ ~configArg.isNone
      /\ DOMAIN configArg.dict # {}
      /\ DOMAIN configArg.dict # DOMAIN GetDefaultConfig )
    => /\ \A k \in DocumentedDefaults \ DOMAIN configArg.dict :
              k \in DOMAIN config /\ config[k] = GetDefaultConfig[k]
       /\ pc = "mapped" => outcome = "ok"

\* C8: when the embedding collaborator raises while the semantic matrix is
\* computed, no exception leaves map_fields, the semantic matrix is the one of
\* the statistical fallback (all zeros if the fallback fails), and the lexical
\* and rule-based matrices are what they are without the failure.
C8_EmbeddingFailureContained ==
    ( /\ pc = "mapped"
      /\ "semantic" \in ActiveProviders(config, bert_model)
      /\ embedResp = "raise"
      /\ arg_document_fields # <<>>
      /\ arg_form_fields # <<>> )
    => LET doc_names == Names(arg_document_fields)
           form_names == Names(arg_form_fields)
           fallback == ComputeTfidfSimilarity(vocabularyBefore, doc_names, form_names)
           zeros == [i \in 1..Len(doc_names) |-> [j \in 1..Len(form_names) |-> 0]]
       IN  /\ outcome = "ok"
           /\ matrices["semantic"] = IF fallback.raised THEN zeros
                                     ELSE fallback.matrix
           /\ "fuzzy" \in DOMAIN matrices =>
                  matrices["fuzzy"] = ComputeFuzzyMatrix(doc_names, form_names)
           /\ "rule_based" \in DOMAIN matrices =>
                  matrices["rule_based"] = ComputeRuleBasedMatrix(doc_names, form_names)

\* C9: map_fields returns the empty list, without raising, whenever the list
\* of source fields or the list of target fields is empty, whichever of the
\* providers are enabled.
C9_EmptyInputsReturnEmpty ==
    (pc = "mapped" /\ (arg_document_fields = <<>> \/ arg_form_fields = <<>>))
    => (outcome = "ok" /\ mappings = <<>>)

\* C10: with all three providers disabled the fused confidence of every pair
\* is exactly 0, map_fields raises no error, and its result is empty whenever
\* either threshold is greater than 0.
C10_NoProviderScoresZero ==
    ( /\ pc = "mapped"
      /\ \A flag \in {"enable_fuzzy_matching", "enable_semantic_matching",
                       "enable_rule_based"} :
             flag \in DOMAIN config /\ config[flag] = FALSE )
    => /\ outcome = "ok"
       /\ \A ij \in DOMAIN confidences : confidences[ij] = 0
       /\ ( \/ Get(config, "similarity_threshold", 70) > 0
            \/ Get(config, "confidence_threshold", 60) > 0 )
          => mappings = <<>>

\* the ranges the specification documents for the options of cfg that are set
ValidConfiguration(cfg) ==
    /\ \A k \in {"fuzzy_ratio_weight", "semantic_weight", "rule_weight"} \cap DOMAIN cfg :
           cfg[k] >= 0
    /\ \A k \in {"similarity_threshold", "confidence_threshold"} \cap DOMAIN cfg :
           0 <= cfg[k] /\ cfg[k] <= 100

\* C11: a configuration with a negative fusion weight or a threshold outside
\* [0, 1] is rejected by the constructor: no mapper is ever ready, or used by
\* map_fields, with such a configuration.
C11_InvalidConfigRejected ==
    pc # "new" => ValidConfiguration(config)

\* the pair (i, j) of the last map_fields call clears both floors
ClearsBothFloors(ij) ==
    /\ confidences[ij] >= ThresholdAsConf(config["similarity_threshold"])
    /\ confidences[ij] >= ThresholdAsConf(config["confidence_threshold"])

\* C12: in the list map_fields returns each source field, by its position in
\* the input, is the source of at most one mapping, so the list is no longer
\* than the number of source fields nor than the number of distinct target
\* names, and no (source, target) pair occurs twice; one source field with
\* several targets above the floors gives exactly one mapping.
C12_OneMappingPerSource ==
    (pc = "mapped" /\ outcome = "ok") =>
        /\ \E f \in [1..Len(mappings) -> 1..Len(arg_document_fields)] :
              /\ \A k, l \in 1..Len(mappings) : f[k] = f[l] => k = l
              /\ \A k \in 1..Len(mappings) :
                     arg_document_fields[f[k]].name = mappings[k].source_field
        /\ Len(mappings) <= Len(arg_document_fields)
        /\ Len(mappings) <= Cardinality(Range(Names(arg_form_fields)))
        /\ \A k, l \in 1..Len(mappings) :
              ( /\ mappings[k].source_field = mappings[l].source_field
                /\ mappings[k].target_field = mappings[l].target_field ) => k = l
        /\ ( /\ Len(arg_document_fields) = 1
             /\ \E ij \in DOMAIN confidences : ClearsBothFloors(ij) )
           => Len(mappings) = 1

\* map_fields returned one mapping for a single source field that has two
\* targets of different names above both floors
C12_OneSourceSeveralTargets ==
    /\ pc = "mapped"
    /\ outcome = "ok"
    /\ Len(arg_document_fields) = 1
    /\ Len(mappings) = 1
    /\ \E ij, kl \in DOMAIN confidences :
          /\ arg_form_fields[ij[2]].name # arg_form_fields[kl[2]].name
          /\ ClearsBothFloors(ij)
          /\ ClearsBothFloors(kl)

\* values of confidence_threshold the last call is compared under, in
\* hundredths
ThresholdValues == {0, 30, 50, 60, 90}

\* the last map_fields call, made again with confidence_threshold set to t
WithConfidenceThreshold(t) ==
    MapFieldsRun([config EXCEPT !["confidence_threshold"] = t], bert_model, vocabularyBefore,
                 arg_document_fields, arg_form_fields, embedResp)

SourceDeclaredAs(field_type) == Field(arg_document_fields[1].name, field_type)

\* C14: for identical names and all else equal, a pair declared EMAIL on both
\* sides has a strictly higher fused confidence than the same pair declared
\* TEXT and EMAIL, also when the provider scores are at their maximum, as the
\* lexical and the rule-based score of identical names are.
C14_SameTypeScoresHigher ==
    ( /\ pc = "scored"
      /\ arg_document_fields[1].name = arg_form_fields[1].name
      /\ arg_document_fields[1].field_type = "EMAIL"
      /\ arg_form_fields[1].field_type = "EMAIL"
      /\ {"fuzzy", "rule_based"} \subseteq DOMAIN matrices
      /\ matrices["fuzzy"][1][1] = ScoreOne
      /\ matrices["rule_based"][1][1] = ScoreOne )
    => confidences[<<1, 1>>]
           > CalculateConfidenceScore(config, SourceDeclaredAs("TEXT"),
                                      arg_form_fields[1], matrices, 1, 1)

\* the unordered pairs of types the specification lists as loosely compatible
LooselyCompatible ==
    {{"TEXT", "NAME"}, {"TEXT", "ADDRESS"}, {"NUMBER", "CURRENCY"},
     {"TEXT", "EMAIL"}, {"TEXT", "PHONE"}}

\* C15: the type bonus is 0.2 for identical declared types, the table value
\* (0.15 for NUMBER and CURRENCY, 0.1 for the other listed pairs) when the
\* unordered pair is in the compatibility table, and 0 otherwise; it is
\* symmetric in its arguments, and the bonus of identical types is strictly
\* greater than that of any two different types.
C15_TypeBonusTable ==
    pc = "bonus" =>
        LET doc_field == arg_document_fields[1]
            form_field == arg_form_fields[1]
            a == doc_field.field_type
            b == form_field.field_type
        IN  /\ result = IF a = b THEN 20
                        ELSE IF {a, b} = {"NUMBER", "CURRENCY"} THEN 15
                        ELSE IF {a, b} \in LooselyCompatible THEN 10
                        ELSE 0
            /\ result = CalculateTypeCompatibilityBonus(Field(doc_field.name, b),
                                                        Field(form_field.name, a))
            /\ a # b =>
                  result < CalculateTypeCompatibilityBonus(doc_field,
                                                           Field(form_field.name, a))

\* the bonus was computed for a pair the table lists in the other direction
C15_BonusOfReversedPair ==
    /\ pc = "bonus"
    /\ arg_document_fields[1].field_type = "EMAIL"
    /\ arg_form_fields[1].field_type = "TEXT"
    /\ result = 10

\* the modelled names in lower case
LowerTable == Table([n \in FieldNames |-> Lower(n)])

CaseFoldedNames == Range(LowerTable)

\* the lexical and the rule-based score of every pair of lower-case names
FuzzyScoreOfCaseFolded ==
    Table([p \in CaseFoldedNames \X CaseFoldedNames |-> FuzzyScore(p[1], p[2])])

RuleScoreOfCaseFolded ==
    Table([p \in CaseFoldedNames \X CaseFoldedNames |-> ApplyMappingRules(p[1], p[2])])

\* C16: the rule-based and the lexical score of a pair are those of the two
\* names in lower case, whatever the letter case of the source or the target
\* name; names that differ only in case score as an exact match, and
\* map_fields returns a mapping for them.
C16_ScoresIgnoreCase ==
    (pc = "mapped" /\ outcome = "ok") =>
        /\ \A i \in 1..Len(arg_document_fields), j \in 1..Len(arg_form_fields) :
              LET folded == <<LowerTable[arg_document_fields[i].name],
                              LowerTable[arg_form_fields[j].name]>>
              IN  /\ "fuzzy" \in DOMAIN matrices =>
                         /\ matrices["fuzzy"][i][j] = FuzzyScoreOfCaseFolded[folded]
                         /\ folded[1] = folded[2] => matrices["fuzzy"][i][j] = ScoreOne
                  /\ "rule_based" \in DOMAIN matrices =>
                         /\ matrices["rule_based"][i][j] = RuleScoreOfCaseFolded[folded]
                         /\ folded[1] = folded[2] =>
                                matrices["rule_based"][i][j] = ScoreOne
        /\ ( /\ Len(arg_document_fields) = 1
             /\ Len(arg_form_fields) = 1
             /\ LowerTable[arg_document_fields[1].name]
                    = LowerTable[arg_form_fields[1].name]
             /\ DOMAIN matrices = {"fuzzy", "rule_based"}
             /\ ValidConfiguration(config)
             /\ Weight(config, "fuzzy") > 0
             /\ Weight(config, "rule_based") > 0 )
           => /\ Len(mappings) = 1
              /\ mappings[1].confidence_score = ConfOne

\* map_fields returned a mapping of confidence 1 for a source and a target
\* name that differ in letter case only
C16_MappedAcrossCase ==
    /\ pc = "mapped"
    /\ outcome = "ok"
    /\ Len(arg_document_fields) = 1
    /\ Len(arg_form_fields) = 1
    /\ arg_document_fields[1].name = "firstName"
    /\ arg_form_fields[1].name = "FIRSTNAME"
    /\ DOMAIN matrices = {"fuzzy", "rule_based"}
    /\ Len(mappings) = 1
    /\ mappings[1].confidence_score = ConfOne

\* the configuration __init__ leaves for the argument it was given
ConfigAfterInit ==
    {InitializeComponents(InitialConfig(configArg), load).config :
        load \in LoadResponses}

\* map_fields on a mapper that has served no call
FreshRun ==
    MapFieldsRun(config, bert_model, {}, arg_document_fields, arg_form_fields,
                 embedResp)

\* C17: map_fields is deterministic and history-independent: whatever calls the
\* mapper served before, a call returns (or raises) what the same call on a
\* newly constructed mapper with the same configuration returns, mapping for
\* mapping with the same confidences, and it leaves the configuration as
\* __init__ left it.
C17_MapFieldsHistoryIndependent ==
    pc = "mapped" =>
        /\ \A fresh \in {FreshRun} :
              /\ outcome = fresh.outcome
              /\ mappings = fresh.mappings
              /\ confidences = fresh.confidences
        /\ config \in ConfigAfterInit

\* a call that fell back to TF-IDF on a vectorizer an earlier call had fitted
\* on other names, and returned mappings
C17_RefittedAfterEarlierCall ==
    /\ pc = "mapped"
    /\ outcome = "ok"
    /\ embedResp = "raise"
    /\ vocabularyBefore # {}
    /\ vocabularyBefore \cap vocabulary_ = {}
    /\ mappings # <<>>
\* the number of digit characters of a text
DigitCount(text) ==
    Cardinality({i \in 1..Len(text) : Ch(text, i) \in DecimalDigits})

\* C18: for a mapping of type PHONE, validate_data_types returns true exactly
\* when the value has 10, 11 or 12 digit characters, whatever else it
\* contains; a value without a digit is invalid.
C18_PhoneValidByDigitCount ==
    (pc = "validated" /\ arg_mapping.field_type = "PHONE") =>
        /\ result = (DigitCount(arg_value) \in {10, 11, 12})
        /\ (DigitCount(arg_value) = 0 => result = FALSE)

\* a PHONE value of twelve characters, ten of them digits, was accepted
C18_PunctuatedPhoneAccepted ==
    /\ pc = "validated"
    /\ arg_mapping.field_type = "PHONE"
    /\ Len(arg_value) = 12
    /\ DigitCount(arg_value) = 10
    /\ result = TRUE
\* the sum of the fusion weights of the providers that computed a matrix
TotalWeightOf(ms) ==
    SumOver(DOMAIN ms, [p \in DOMAIN ms |-> Weight(config, p)])

\* the weighted mean of the providers' entries for a pair, as a confidence
WeightedMeanOf(ms, ij) ==
    (SumOver(DOMAIN ms, [p \in DOMAIN ms |->
                            ms[p][ij[1]][ij[2]] * Weight(config, p)]) * WeightLCM)
        \div TotalWeightOf(ms)

\* a tenth of the type bonus of a pair, as a confidence
BonusTermOf(ij) ==
    CalculateTypeCompatibilityBonus(arg_document_fields[ij[1]],
                                    arg_form_fields[ij[2]]) * (ConfOne \div 1000)

\* a pair whose providers all gave a score in [0, 1], under weights that are
\* not negative and not all zero
OrdinaryPair(ms, ij) ==
    /\ DOMAIN ms # {}
    /\ \A p \in DOMAIN ms :
          /\ Weight(config, p) >= 0
          /\ ms[p][ij[1]][ij[2]] \in 0..ScoreOne
    /\ TotalWeightOf(ms) > 0

\* C19: the fused confidence of a pair is the weighted mean of the providers'
\* entries plus a tenth of the type bonus, clamped to [0, 1]: the bonus is
\* added after the division by the total weight.
C19_BonusAddedAfterNormalising ==
    (pc \in {"mapped", "scored"} /\ outcome = "ok") =>
        \A ij \in DOMAIN confidences :
            OrdinaryPair(matrices, ij) =>
                confidences[ij] =
                    Max(0, Min(WeightedMeanOf(matrices, ij) + BonusTermOf(ij),
                               ConfOne))
\* the priority the tie of the largest entry is broken by, as stated
TiePriority == <<"rule_based", "semantic", "fuzzy">>

\* the provider with the largest entry of a breakdown, the first of them in
\* TiePriority
LargestByPriority(breakdown) ==
    LET largest(p) == /\ p \in DOMAIN breakdown
                      /\ \A q \in DOMAIN breakdown : breakdown[q] <= breakdown[p]
        first == CHOOSE k \in 1..Len(TiePriority) :
                    /\ largest(TiePriority[k])
                    /\ \A l \in 1..(k - 1) : ~largest(TiePriority[l])
    IN  TiePriority[first]

\* C20: the strategy recorded for a mapping is that of the provider with the
\* largest raw entry for the pair, whatever the fusion weights; when several
\* providers share the largest entry, rule-based wins over semantic and
\* semantic over lexical.
C20_StrategyOfLargestEntry ==
    (pc = "mapped" /\ outcome = "ok") =>
        \A k \in 1..Len(mappings) :
            LET breakdown == mappings[k].metadata.similarity_breakdown
            IN  DOMAIN breakdown # {} =>
                    mappings[k].matching_strategy =
                        StrategyMapping(LargestByPriority(breakdown))
\* the largest entry of a breakdown is shared by two providers or more: the
\* winner's margin over the next-best provider is 0
LargestEntryShared(breakdown) ==
    \E p \in DOMAIN breakdown, q \in DOMAIN breakdown :
        /\ p # q
        /\ breakdown[p] = breakdown[q]
        /\ \A o \in DOMAIN breakdown : breakdown[o] <= breakdown[p]

\* C21: a mapping is tagged EXACT exactly when no provider computed a matrix;
\* when two providers or more did and the winner's entry exceeds the
\* next-best entry by a negligible margin (here: by nothing), it is tagged
\* HYBRID instead of the tag of one provider.
C21_ExactOrHybridTag ==
    (pc = "mapped" /\ outcome = "ok") =>
        \A k \in 1..Len(mappings) :
            LET breakdown == mappings[k].metadata.similarity_breakdown
            IN  /\ (mappings[k].matching_strategy = "EXACT") <=> (DOMAIN breakdown = {})
                /\ LargestEntryShared(breakdown) =>
                        mappings[k].matching_strategy = "HYBRID"
\* the providers the configuration enables: a flag that is set and, for the
\* semantic provider, a loaded model
EnabledProviders ==
    {p \in {"fuzzy", "semantic", "rule_based"} :
        /\ Enabled(config, IF p = "fuzzy" THEN "enable_fuzzy_matching"
                           ELSE IF p = "semantic" THEN "enable_semantic_matching"
                           ELSE "enable_rule_based")
        /\ (p = "semantic" => bert_model = "loaded")}

\* the weights the check configures for a disabled provider, in tenths
OtherWeights == {0, 1, 8}

\* the last map_fields call, made again with the weight of provider p set to w
WithWeight(p, w) ==
    MapFieldsRun((WeightKey(p) :> w) @@ config, bert_model, vocabularyBefore,
                 arg_document_fields, arg_form_fields, embedResp)

\* the fusion of a pair over the enabled providers only: the weighted sum of
\* their entries with the type bonus term, over the sum of their weights,
\* capped at 1
FusionOverEnabled(ij) ==
    LET total_weight ==
            SumOver(EnabledProviders, [p \in EnabledProviders |-> Weight(config, p)])
        total_score ==
            SumOver(EnabledProviders,
                    [p \in EnabledProviders |->
                        matrices[p][ij[1]][ij[2]] * Weight(config, p)])
            + CalculateTypeCompatibilityBonus(arg_document_fields[ij[1]],
                                              arg_form_fields[ij[2]])
                * (ScoreOne \div 100)
    IN  IF total_weight > 0
        THEN Min((total_score * WeightLCM) \div total_weight, ConfOne)
        ELSE 0

MaxSuggestions == Get(config, "max_suggestions", 5)

\* the targets of the last call whose confidence clears similarity_threshold
AboveFloor ==
    {j \in 1..Len(arg_form_fields) :
        confidences[<<1, j>>] >= ThresholdAsConf(config["similarity_threshold"])}

\* C23: for a limit max_suggestions >= 0, the list _find_mapping_candidates
\* returns for a source field has at most max_suggestions entries, is in
\* order of non-increasing confidence, holds only targets whose confidence
\* clears similarity_threshold, and leaves out no above-floor target of a
\* confidence strictly higher than that of a returned one: every confidence
\* above the lowest returned one is returned as often as it occurs.
C23_CandidatesSortedAndTruncated ==
    (pc = "candidates" /\ MaxSuggestions >= 0) =>
        /\ Len(result) <= MaxSuggestions
        /\ \A k \in 1..(Len(result) - 1) :
               result[k].confidence_score >= result[k + 1].confidence_score
        /\ \A k \in 1..Len(result) :
               \E j \in AboveFloor :
                   /\ result[k].target_field = arg_form_fields[j].name
                   /\ result[k].confidence_score = confidences[<<1, j>>]
        /\ \A j \in AboveFloor :
               (\E k \in 1..Len(result) :
                    confidences[<<1, j>>] > result[k].confidence_score)
               => Cardinality({k \in 1..Len(result) :
                        result[k].confidence_score = confidences[<<1, j>>]})
                  = Cardinality({l \in AboveFloor :
                        confidences[<<1, l>>] = confidences[<<1, j>>]})

\* a list was cut: an above-floor target of a lower confidence was left out
C23_CandidateLeftOut ==
    /\ pc = "candidates"
    /\ MaxSuggestions >= 1
    /\ Len(result) = MaxSuggestions
    /\ \E j \in AboveFloor :
          confidences[<<1, j>>] < result[Len(result)].confidence_score
\* the keyword sets of the scan, in the order they are tried
KeywordSets ==
    <<[type |-> "EMAIL", terms |-> {"email", "e-mail"}],
      [type |-> "PHONE", terms |-> {"phone", "mobile", "tel"}],
      [type |-> "DATE", terms |-> {"date", "birth", "dob"}],
      [type |-> "NAME", terms |-> {"name", "first", "last"}],
      [type |-> "ADDRESS", terms |-> {"address", "street", "city"}],
      [type |-> "CURRENCY", terms |-> {"amount", "price", "salary"}]>>

\* the keyword sets that have a keyword contained in the lower-cased name
SetsFound(name) ==
    {k \in 1..Len(KeywordSets) :
        \E term \in KeywordSets[k].terms : Contains(Lower(name), term)}

\* C24: the field type is the target's declared type unless that is UNKNOWN;
\* else the source's declared type unless that is UNKNOWN; else the type of
\* the first keyword set, in the order EMAIL, PHONE, DATE, NAME, ADDRESS,
\* CURRENCY, that has a keyword contained in the lower-cased source name;
\* else TEXT.  The name of the target is not read.
C24_FieldTypeResolution ==
    pc = "inferred" =>
        LET source == arg_document_fields[1]
            target == arg_form_fields[1]
            found == SetsFound(source.name)
        IN  result =
                IF target.field_type # "UNKNOWN" THEN target.field_type
                ELSE IF source.field_type # "UNKNOWN" THEN source.field_type
                ELSE IF found # {}
                     THEN KeywordSets[CHOOSE k \in found :
                                        \A l \in found : k <= l].type
                ELSE "TEXT"

\* both declared types are UNKNOWN, the source name has keywords of two
\* types, the target name has a keyword of a third, and the type of the
\* earlier set of the source name was inferred
C24_InferredFromSourceName ==
    /\ pc = "inferred"
    /\ arg_document_fields[1].field_type = "UNKNOWN"
    /\ arg_form_fields[1].field_type = "UNKNOWN"
    /\ Cardinality(SetsFound(arg_document_fields[1].name)) = 2
    /\ SetsFound(arg_form_fields[1].name) \cap SetsFound(arg_document_fields[1].name) = {}
    /\ SetsFound(arg_form_fields[1].name) # {}
    /\ result = KeywordSets[CHOOSE k \in SetsFound(arg_document_fields[1].name) :
                    \A l \in SetsFound(arg_document_fields[1].name) : k <= l].type
\* some pattern pair matches: the lower-cased source name its first pattern,
\* the lower-cased target name its second
PatternPairMatches(source, target) ==
    \E k \in 1..Len(MappingPatterns) :
        /\ ReSearch(MappingPatterns[k][1], Lower(source))
        /\ ReSearch(MappingPatterns[k][2], Lower(target))

\* the whitespace-separated words of the lower-cased name
WordsOf(name) == Range(Split(Lower(name)))

\* the four scores of the rules for a pair of names, in 1/ScoreOne
RuleScores(source, target) ==
    {0}
    \cup (IF Lower(source) = Lower(target) THEN {ScoreOne} ELSE {})
    \cup (IF PatternPairMatches(source, target)
          THEN {(9 * ScoreOne) \div 10} ELSE {})
    \cup (IF Contains(Lower(target), Lower(source))
             \/ Contains(Lower(source), Lower(target))
          THEN {(7 * ScoreOne) \div 10} ELSE {})
    \cup (IF WordsOf(source) \cup WordsOf(target) # {}
          THEN {(8 * (ScoreOne \div 10)
                   * Cardinality(WordsOf(source) \cap WordsOf(target)))
                \div Cardinality(WordsOf(source) \cup WordsOf(target))}
          ELSE {})

\* C25: the rule-based score of a pair of names is the largest of 1.0 when
\* the names are equal ignoring case, 0.9 when a pattern pair matches the
\* source with its first and the target with its second pattern, 0.7 when
\* one lower-cased name is inside the other, and 0.8 times the Jaccard index
\* of the two sets of whitespace-separated words; it lies between 0 and 1
\* and is 1.0 only for names equal ignoring case.
C25_RuleScoreIsLargestOfFour ==
    pc = "ruled" =>
        LET source == arg_document_fields[1]
            target == arg_form_fields[1]
            scores == RuleScores(source, target)
        IN  /\ result \in scores
            /\ \A x \in scores : x <= result
            /\ result \in 0..ScoreOne
            /\ (result = ScoreOne) <=> (Lower(source) = Lower(target))

\* two different names of the same words: the word overlap decided the
\* score, at 0.8
C25_SameWordsOtherOrder ==
    /\ pc = "ruled"
    /\ Lower(arg_document_fields[1]) # Lower(arg_form_fields[1])
    /\ WordsOf(arg_document_fields[1]) = WordsOf(arg_form_fields[1])
    /\ ~PatternPairMatches(arg_document_fields[1], arg_form_fields[1])
    /\ result = (8 * ScoreOne) \div 10
\* the targets of source i of the last map_fields call that clear
\* similarity_threshold
TargetsAboveFloor(i) ==
    {j \in 1..Len(arg_form_fields) :
        confidences[<<i, j>>] >= ThresholdAsConf(config["similarity_threshold"])}

\* the target of the highest confidence among them, the lowest index first
BestTarget(i) ==
    CHOOSE j \in TargetsAboveFloor(i) :
        \A l \in TargetsAboveFloor(i) :
            \/ confidences[<<i, l>>] < confidences[<<i, j>>]
            \/ confidences[<<i, l>>] = confidences[<<i, j>>] /\ j <= l

\* the sources whose best candidate is forwarded to the conflict resolution
ForwardedSources ==
    {i \in 1..Len(arg_document_fields) :
        /\ MaxSuggestions >= 1
        /\ TargetsAboveFloor(i) # {}
        /\ ClearsBothFloors(<<i, BestTarget(i)>>)}

\* source i lost the conflict over its best target to a source of another name
LostConflict(i) ==
    /\ i \in ForwardedSources
    /\ \E k \in 1..Len(mappings) :
          /\ mappings[k].target_field = arg_form_fields[BestTarget(i)].name
          /\ mappings[k].source_field # arg_document_fields[i].name

\* C26: map_fields forwards only the best candidate of each source to the
\* conflict resolution: every returned mapping is the best candidate of a
\* source, the list has one mapping for each distinct target among the
\* forwarded best candidates, and a source that lost the conflict over its
\* best target is the source of no returned mapping.
C26_OnlyBestCandidateForwarded ==
    (pc = "mapped" /\ outcome = "ok") =>
        /\ \A k \in 1..Len(mappings) :
              \E i \in ForwardedSources :
                  /\ mappings[k].source_field = arg_document_fields[i].name
                  /\ mappings[k].target_field = arg_form_fields[BestTarget(i)].name
                  /\ mappings[k].confidence_score = confidences[<<i, BestTarget(i)>>]
        /\ Len(mappings) =
              Cardinality({arg_form_fields[BestTarget(i)].name : i \in ForwardedSources})
        /\ \A i \in 1..Len(arg_document_fields) :
              LostConflict(i) =>
                  \A k \in 1..Len(mappings) :
                      mappings[k].source_field # arg_document_fields[i].name

\* a source lost the conflict over its best target and has another target
\* that clears both floors and that no returned mapping names
C26_LoserHasFreeTarget ==
    /\ pc = "mapped"
    /\ outcome = "ok"
    /\ \E i \in 1..Len(arg_document_fields) :
          /\ LostConflict(i)
          /\ \E j \in 1..Len(arg_form_fields) :
                /\ ClearsBothFloors(<<i, j>>)
                /\ \A k \in 1..Len(mappings) :
                      mappings[k].target_field # arg_form_fields[j].name
\* the first position of ms whose mapping names target t
FirstPositionOf(ms, t) ==
    CHOOSE k \in PositionsOf(ms, t) : \A l \in PositionsOf(ms, t) : k <= l

\* C27: _resolve_mapping_conflicts returns exactly one mapping for each
\* distinct target_field of its input and none for another target; every
\* returned mapping is an element of the input, equal to it in every field;
\* the returned mappings are in the order in which their targets first occur
\* in the input; and every mapping whose target no other mapping of the input
\* names is returned.
C27_OneUnmodifiedMappingPerTarget ==
    pc = "resolved" =>
        /\ \A k \in 1..Len(resolveInput) :
              Cardinality(PositionsOf(mappings, resolveInput[k].target_field)) = 1
        /\ \A k \in 1..Len(mappings) : mappings[k] \in Range(resolveInput)
        /\ \A k, l \in 1..Len(mappings) :
              k < l => FirstPositionOf(resolveInput, mappings[k].target_field)
                          < FirstPositionOf(resolveInput, mappings[l].target_field)
        /\ \A k \in 1..Len(resolveInput) :
              PositionsOf(resolveInput, resolveInput[k].target_field) = {k}
                  => resolveInput[k] \in Range(mappings)

\* the resolver returned the last mapping of its input first, because its
\* target occurs first in the input, and after it a mapping whose target is
\* unique in the input
C27_LaterWinnerComesFirst ==
    /\ pc = "resolved"
    /\ Len(resolveInput) = 3
    /\ Len(mappings) = 2
    /\ resolveInput[1].target_field = resolveInput[3].target_field
    /\ resolveInput[1].confidence_score < resolveInput[3].confidence_score
    /\ mappings = <<resolveInput[3], resolveInput[2]>>
\* values of max_suggestions the last call is compared under
SuggestionValues == {1, 2, 5}

\* the last map_fields call, made again with max_suggestions set to n
WithMaxSuggestions(n) ==
    MapFieldsRun(("max_suggestions" :> n) @@ config, bert_model, vocabularyBefore,
                 arg_document_fields, arg_form_fields, embedResp)

\* C28: for every max_suggestions >= 1 map_fields returns the same list:
\* cutting the sorted candidate list of a source does not change the
\* candidate selected as its best.
C28_SameResultForEveryLimit ==
    (pc = "mapped" /\ outcome = "ok" /\ MaxSuggestions >= 1) =>
        \A n \in SuggestionValues \ {MaxSuggestions} :
            /\ WithMaxSuggestions(n).outcome = "ok"
            /\ WithMaxSuggestions(n).mappings = mappings

\* map_fields returned a mapping under max_suggestions 1 for a source that
\* has a second target above the similarity floor, of a lower index and a
\* lower confidence than the returned one: the candidate list was cut
C28_CutListKeptTheBest ==
    /\ pc = "mapped"
    /\ outcome = "ok"
    /\ MaxSuggestions = 1
    /\ Len(mappings) = 1
    /\ \E j, l \in TargetsAboveFloor(1) :
          /\ l < j
          /\ confidences[<<1, l>>] < confidences[<<1, j>>]
          /\ mappings[1].confidence_score = confidences[<<1, j>>]
\* the last command was one of execution-state.py
ExecutionRan == command.script = "execution-state"

\* the state the last command of execution-state.py loaded and the one it left
ExecutionBefore == ExecutionLoadState(fileBefore)
ExecutionAfter == ExecutionLoadState(execution_file)

NoDuplicates(list) ==
    \A k, l \in 1..Len(list) : list[k] = list[l] => k = l

IsPrefix(a, b) == Len(a) <= Len(b) /\ SubSeq(b, 1, Len(a)) = a

\* the last command was a start_execution that started afresh
FreshStart == command.name = "start" /\ command.choice # "1"

\* C29: after any sequence of start_execution, update_task, complete_subtask,
\* complete_task and end_execution from no state file, completed_tasks and
\* completed_subtasks hold no entry twice; completing a task or subtask that
\* is in its list leaves the list as it was; and every command but a fresh
\* start_execution keeps the entries both lists had, so only that one
\* empties them.
C29_CompletedListsWithoutDuplicates ==
    ExecutionRan =>
        /\ NoDuplicates(ExecutionAfter.completed_tasks)
        /\ NoDuplicates(ExecutionAfter.completed_subtasks)
        /\ ( /\ command.name = "complete-task"
             /\ command.args[1] \in Range(ExecutionBefore.completed_tasks) )
           => ExecutionAfter.completed_tasks = ExecutionBefore.completed_tasks
        /\ ( /\ command.name = "complete-subtask"
             /\ (command.args[1] \o "." \o command.args[2])
                    \in Range(ExecutionBefore.completed_subtasks) )
           => ExecutionAfter.completed_subtasks
                  = ExecutionBefore.completed_subtasks
        /\ ~FreshStart =>
              /\ IsPrefix(ExecutionBefore.completed_tasks,
                          ExecutionAfter.completed_tasks)
              /\ IsPrefix(ExecutionBefore.completed_subtasks,
                          ExecutionAfter.completed_subtasks)
        /\ FreshStart =>
              /\ ExecutionAfter.completed_tasks = <<>>
              /\ ExecutionAfter.completed_subtasks = <<>>

\* the first of two tasks in completed_tasks was completed again, in a
\* session that has a completed subtask, and the list is as it was
C29_CompletedAgain ==
    /\ ExecutionRan
    /\ command.name = "complete-task"
    /\ Len(ExecutionBefore.completed_tasks) = 2
    /\ command.args[1] = ExecutionBefore.completed_tasks[1]
    /\ ExecutionAfter.completed_tasks = ExecutionBefore.completed_tasks
    /\ ExecutionAfter.completed_subtasks # <<>>
\* the last command was one of track-time.py
TrackingRan == command.script = "track-time"

\* the key of the last command of track-time.py
CommandKey == TrackingKey(command.args[1], command.args[2])

\* the tasks of the state file of track-time.py
TrackedTasks == TrackingLoadState(tracking_file).tasks

\* the state file as it was has a start time for the key
StartRecorded(key) ==
    /\ fileBefore # NoFile
    /\ key \in DOMAIN fileBefore[1].tasks
    /\ "start" \in DOMAIN fileBefore[1].tasks[key]

\* C30: complete_tracking for a key without a recorded start time exits with
\* an error code and leaves the state file as it was; and a key has the
\* status "completed", with an end time and a duration, only when
\* start_tracking was called for it and complete_tracking was called for it
\* after that.
C30_CompleteNeedsStart ==
    TrackingRan =>
        /\ (command.name = "complete" /\ ~StartRecorded(CommandKey))
           => (exit_code = 1 /\ tracking_file = fileBefore)
        /\ \A key \in DOMAIN TrackedTasks :
              ( /\ Get(TrackedTasks[key], "status", None) = "completed"
                /\ "end" \in DOMAIN TrackedTasks[key]
                /\ "duration_minutes" \in DOMAIN TrackedTasks[key] )
              => Get(key_history, key, "none") = "completed"

\* complete_tracking failed for a key that was never started, while the
\* state file holds another key that is completed
C30_CompleteFailedWithoutStart ==
    /\ TrackingRan
    /\ command.name = "complete"
    /\ exit_code = 1
    /\ CommandKey \notin DOMAIN TrackedTasks
    /\ tracking_file = fileBefore
    /\ \E key \in DOMAIN TrackedTasks :
          /\ TrackedTasks[key]["status"] = "completed"
          /\ "end" \in DOMAIN TrackedTasks[key]
====
